---- MODULE Spec2Model ----
(***************************************************************************)
(* Model of the FinLinter detection engine: ScannerDispatch.scan_code      *)
(* (language resolution and dispatch), the three language scanners         *)
(* (PythonScanner: syntax-tree visitor; JavaScriptScanner and JavaScanner: *)
(* line-by-line lexical passes) and the CostEstimator; and of               *)
(* ScannerDispatch.scan_directory, which scans the files of a directory    *)
(* one after the other (specification DirSpec).                            *)
(*                                                                         *)
(* Source text is represented by what each component reads from it:        *)
(*   - the Python scanner reads the syntax tree: code.tree is the          *)
(*     pre-order list of the tree's nodes with their nesting depth (or     *)
(*     code.parse_ok = FALSE when ast.parse raises SyntaxError);           *)
(*   - the lexical scanners read lines: code.lines is a sequence of lines, *)
(*     each a sequence of lexemes (pieces of source text);                 *)
(*   - content detection reads indicator keywords: code.words is the set   *)
(*     of indicator keywords that occur in the text.                       *)
(* Money is counted in units of 1/10000 rupee (Scale).                     *)
(***************************************************************************)
EXTENDS Integers, Sequences, FiniteSets, TLC

VARIABLES
    code,               \* the source unit: [tree, parse_ok, lines, words]
    language_arg,       \* scan_code's language argument
    file_path,          \* scan_code's file_path argument
    language,           \* the local variable language of scan_code
    content_scored,     \* TRUE once _detect_from_content has run
    pc,                 \* position in scan_code / scanner.scan
    node_idx,           \* LoopVisitor: next tree node to visit
    loop_stack,         \* LoopVisitor.loop_stack
    fn_stack,           \* saved (old_function, old_hot_path) of open visit_FunctionDef calls
    in_hot_path,        \* LoopVisitor.in_hot_path
    current_function,   \* LoopVisitor.current_function
    line_idx,           \* lexical scanners: index i of the line loop
    loop_depth,         \* lexical scanners: loop_depth
    brace_depth,        \* JavaScanner._find_loops: brace_depth
    brace_stack,        \* JavaScriptScanner.scan: brace_stack
    loop_start_depths,  \* JavaScanner._find_loops: loop_start_depths
    in_loop_lines,      \* lexical scanners: in_loop_lines (0-based indices)
    findings,           \* the scanner's internal findings list
    out_findings,       \* the list of Finding objects scanner.scan returns
    result,             \* the ScanResult scan_code returns (Nothing until it returns)
    directory,          \* scan_directory: the directory, [exists, files]
    dir_idx,            \* scan_directory: position of the loop over files
    results,            \* scan_directory: the list results
    estimates,          \* CostEstimator's caller: the CostEstimate objects obtained so far
    cost_ret            \* CostEstimator's caller: the last call and what it returned

vars == <<code, language_arg, file_path, language, content_scored, pc,
          node_idx, loop_stack, fn_stack, in_hot_path, current_function,
          line_idx, loop_depth, brace_depth, brace_stack, loop_start_depths,
          in_loop_lines, findings, out_findings, result,
          directory, dir_idx, results, estimates, cost_ret>>

\* Optional values: Nothing is Python's None, Some(x) a present value
Nothing == <<>>
Some(x) == <<x>>

-----------------------------------------------------------------------------
(* Bounds of the explored inputs *)

MaxNodes == 3       \* nodes of a Python syntax tree
MaxLines == 4       \* lines of a JavaScript / Java source
MaxEstimates == 2   \* estimates handed to get_summary

-----------------------------------------------------------------------------
(* Strings: substring test and lower-casing, as Python's `in` and          *)
(* str.lower() on ASCII text.                                              *)

IsSubstring(p, s) ==
    \E k \in 0..(Len(s) - Len(p)) : SubSeq(s, k + 1, k + Len(p)) = p

UpperLetters == "ABCDEFGHIJKLMNOPQRSTUVWXYZ"
LowerLetters == "abcdefghijklmnopqrstuvwxyz"

LowerChar(c) ==
    IF \E k \in 1..26 : SubSeq(UpperLetters, k, k) = c
    THEN LET k == CHOOSE j \in 1..26 : SubSeq(UpperLetters, j, j) = c
         IN  SubSeq(LowerLetters, k, k)
    ELSE c

RECURSIVE Lower(_)
Lower(s) ==
    IF Len(s) = 0 THEN ""
    ELSE LowerChar(SubSeq(s, 1, 1)) \o Lower(SubSeq(s, 2, Len(s)))

Last(s) == s[Len(s)]
Front(s) == SubSeq(s, 1, Len(s) - 1)

-----------------------------------------------------------------------------
(* Cost model: finlinter/cost/estimator.py *)

Scale == 10000      \* money unit: 1 rupee = Scale units

CostCategory == {"database_read", "database_write", "api_call", "serialization"}

UNIT_COSTS ==
    [c \in CostCategory |->
        CASE c = "database_read"  -> 20
          [] c = "database_write" -> 40
          [] c = "api_call"       -> 100
          [] c = "serialization"  -> 1]

DEFAULT_LOOP_ITERATIONS == 100

HighThreshold == 100
MediumThreshold == 10

\* mutation: the medium threshold already gives high
_calculate_severity_low_bar(monthly_cost) ==
    IF monthly_cost > MediumThreshold * Scale THEN "high"
    ELSE "low"

\* mutation: the thresholds themselves fall into the higher bucket
_calculate_severity_inclusive(monthly_cost) ==
    IF monthly_cost >= HighThreshold * Scale THEN "high"
    ELSE IF monthly_cost >= MediumThreshold * Scale THEN "medium"
    ELSE "low"

_calculate_severity(monthly_cost) ==
    IF monthly_cost > HighThreshold * Scale THEN "high"
    ELSE IF monthly_cost > MediumThreshold * Scale THEN "medium"
    ELSE "low"

\* mutation: a missing iteration count is taken to be 1
estimate_one_iteration(category, iterations) ==
    LET its  == IF iterations = Nothing \/ iterations[1] = 0 THEN 1 ELSE iterations[1]
        unit == IF category \in DOMAIN UNIT_COSTS THEN UNIT_COSTS[category] ELSE 0
        per  == unit * its
        mon  == per * 30
    IN  [category |-> category, unit_cost |-> unit, iterations |-> its,
         per_execution_cost |-> per, monthly_cost |-> mon,
         severity |-> IF mon > HighThreshold * Scale THEN "high"
                      ELSE IF mon > MediumThreshold * Scale THEN "medium"
                      ELSE "low"]

\* iterations is Nothing when the caller supplies no iteration count, else
\* Some(n); `iterations or DEFAULT_LOOP_ITERATIONS` also replaces 0.
estimate(category, iterations) ==
    LET its  == IF iterations = Nothing \/ iterations[1] = 0
                THEN DEFAULT_LOOP_ITERATIONS ELSE iterations[1]
        unit == IF category \in DOMAIN UNIT_COSTS THEN UNIT_COSTS[category] ELSE 0
        per  == unit * its
        mon  == per * 30
    IN  [category |-> category, unit_cost |-> unit, iterations |-> its,
         per_execution_cost |-> per, monthly_cost |-> mon,
         severity |-> _calculate_severity(mon)]

\* round(x, 2): to the nearest hundredth of a rupee, ties to even
Round2(x) ==
    LET step == Scale \div 100
        q    == x \div step
        r    == x % step
    IN  IF 2 * r > step THEN (q + 1) * step
        ELSE IF 2 * r < step THEN q * step
        ELSE IF q % 2 = 0 THEN q * step ELSE (q + 1) * step

CostEstimate_to_dict(e) ==
    [category |-> e.category, unit_cost |-> e.unit_cost,
     iterations |-> e.iterations,
     per_execution_cost |-> Round2(e.per_execution_cost),
     monthly_cost |-> Round2(e.monthly_cost),
     severity |-> e.severity]

DISCLAIMER == "Approximate estimate for awareness, not exact billing."

\* sum(e.per_execution_cost for e in estimates), over the first n estimates
RECURSIVE SumPerExecution(_, _)
SumPerExecution(es, n) ==
    IF n = 0 THEN 0 ELSE SumPerExecution(es, n - 1) + es[n].per_execution_cost

\* sum(e.monthly_cost for e in estimates), over the first n estimates
RECURSIVE SumMonthly(_, _)
SumMonthly(es, n) ==
    IF n = 0 THEN 0 ELSE SumMonthly(es, n - 1) + es[n].monthly_cost

\* the loop `severity_counts[e.severity] += 1` over the first n estimates
RECURSIVE CountSeverities(_, _)
CountSeverities(es, n) ==
    IF n = 0 THEN [s \in {"low", "medium", "high"} |-> 0]
    ELSE LET counts == CountSeverities(es, n - 1)
         IN  [counts EXCEPT ![es[n].severity] = @ + 1]

\* mutation: the totals are returned unrounded
get_summary_unrounded(es) ==
    [total_per_execution |-> SumPerExecution(es, Len(es)),
     total_monthly |-> SumMonthly(es, Len(es)),
     severity_counts |-> CountSeverities(es, Len(es)),
     findings_count |-> Len(es),
     disclaimer |-> DISCLAIMER]

get_summary(es) ==
    IF es = <<>>
    THEN [total_per_execution |-> 0,
          total_monthly |-> 0,
          severity_counts |-> [s \in {"low", "medium", "high"} |-> 0],
          findings_count |-> 0,
          disclaimer |-> DISCLAIMER]
    ELSE [total_per_execution |-> Round2(SumPerExecution(es, Len(es))),
          total_monthly |-> Round2(SumMonthly(es, Len(es))),
          severity_counts |-> CountSeverities(es, Len(es)),
          findings_count |-> Len(es),
          disclaimer |-> DISCLAIMER]

\* quick_estimate(category, iterations=100): iterations is Nothing when the
\* caller leaves the parameter at its default
quick_estimate(category, iterations) ==
    CostEstimate_to_dict(
        estimate(category,
                 IF iterations = Nothing THEN Some(DEFAULT_LOOP_ITERATIONS)
                 ELSE iterations))

-----------------------------------------------------------------------------
(* Python scanner: pattern tables (finlinter/core/python_scanner.py) *)

PY_DB_PATTERNS == <<
    <<"dynamodb", "get_item", "DynamoDB get_item">>,
    <<"dynamodb", "query", "DynamoDB query">>,
    <<"dynamodb", "scan", "DynamoDB scan">>,
    <<"dynamodb", "put_item", "DynamoDB put_item">>,
    <<"table", "get_item", "DynamoDB get_item">>,
    <<"table", "query", "DynamoDB query">>,
    <<"table", "scan", "DynamoDB scan">>,
    <<"session", "query", "SQLAlchemy query">>,
    <<"session", "execute", "SQLAlchemy execute">>,
    <<"session", "get", "SQLAlchemy get">>,
    <<"db", "get", "Database get">>,
    <<"db", "query", "Database query">>,
    <<"db", "execute", "Database execute">>,
    <<"db", "find", "Database find">>,
    <<"db", "find_one", "Database find_one">>,
    <<"collection", "find", "MongoDB find">>,
    <<"collection", "find_one", "MongoDB find_one">>,
    <<"collection", "aggregate", "MongoDB aggregate">>,
    <<"redis", "get", "Redis get">>,
    <<"redis", "hget", "Redis hget">>,
    <<"redis", "hgetall", "Redis hgetall">>,
    <<"cursor", "execute", "SQL cursor execute">>,
    <<"cursor", "fetchone", "SQL cursor fetchone">>,
    <<"cursor", "fetchall", "SQL cursor fetchall">> >>

PY_API_PATTERNS == <<
    <<"requests", "get", "HTTP GET request">>,
    <<"requests", "post", "HTTP POST request">>,
    <<"requests", "put", "HTTP PUT request">>,
    <<"requests", "delete", "HTTP DELETE request">>,
    <<"requests", "patch", "HTTP PATCH request">>,
    <<"httpx", "get", "HTTPX GET request">>,
    <<"httpx", "post", "HTTPX POST request">>,
    <<"client", "get", "HTTP client GET">>,
    <<"client", "post", "HTTP client POST">>,
    <<"session", "get", "aiohttp GET">>,
    <<"session", "post", "aiohttp POST">>,
    <<"urllib", "urlopen", "urllib request">>,
    <<"request", "urlopen", "urllib request">>,
    <<"client", "invoke", "AWS Lambda invoke">>,
    <<"sns", "publish", "AWS SNS publish">>,
    <<"sqs", "send_message", "AWS SQS send">> >>

PY_SERIALIZATION_PATTERNS == <<
    <<"json", "dumps", "JSON serialization">>,
    <<"json", "loads", "JSON deserialization">>,
    <<"pickle", "dumps", "Pickle serialization">>,
    <<"pickle", "loads", "Pickle deserialization">>,
    <<"yaml", "dump", "YAML serialization">>,
    <<"yaml", "load", "YAML deserialization">> >>

UNBOUNDED_QUERY_PATTERNS == <<
    <<"cursor", "execute", "SQL query">>,
    <<"cursor", "fetchall", "SQL fetchall">>,
    <<"session", "query", "ORM query">>,
    <<"session", "execute", "SQLAlchemy execute">>,
    <<"collection", "find", "MongoDB find">>,
    <<"db", "query", "Database query">>,
    <<"db", "execute", "Database execute">>,
    <<"db", "find", "Database find">>,
    <<"table", "scan", "DynamoDB scan">> >>

PAGINATION_KEYWORDS ==
    {"limit", "offset", "top", "fetch", "first", "take",
     "page", "paginate", "pagination", "slice", "[:"}

PY_HOT_PATH_KEYWORDS ==
    {"handle", "handler", "process", "controller", "endpoint",
     "route", "view", "api", "webhook", "lambda_handler",
     "main", "run", "execute", "dispatch", "serve"}

-----------------------------------------------------------------------------
(* Python syntax trees.  A tree is the pre-order list of its nodes; a node  *)
(* records its class (kind), its nesting depth below the module and, for    *)
(* the classes the visitor reads, the fields it reads:                      *)
(*   FunctionDef / AsyncFunctionDef: name                                   *)
(*   Call: ftype  = class of node.func          (Attribute, Name, Other)    *)
(*         vtype  = class of node.func.value    (Name, Attribute, Call, ..) *)
(*         vftype = class of node.func.value.func                           *)
(*         recv   = value.id / value.attr / value.func.attr / value.func.id *)
(*         attr   = func.attr / func.id                                     *)
(*         argkind, argtext = class of args[0] and its constant text        *)

PyNode(kind, name) ==
    [kind |-> kind, depth |-> 0, name |-> name, ftype |-> "", vtype |-> "",
     vftype |-> "", recv |-> "", attr |-> "", argkind |-> "", argtext |-> "",
     field |-> "body"]

PyCall(ftype, vtype, vftype, recv, attr, argkind, argtext) ==
    [kind |-> "Call", depth |-> 0, name |-> "", ftype |-> ftype, vtype |-> vtype,
     vftype |-> vftype, recv |-> recv, attr |-> attr,
     argkind |-> argkind, argtext |-> argtext, field |-> "body"]

\* the node as the child its parent holds in the given field (ast
\* iter_fields): iter, test, orelse, generators, elt; body otherwise
InField(node, field) == [node EXCEPT !.field = field]

\* obj.method(arg) with obj a plain name
PyMethodCall(recv, attr, argkind, argtext) ==
    PyCall("Attribute", "Name", "", recv, attr, argkind, argtext)

LoopKinds == {"For", "While", "ListComp", "DictComp", "SetComp", "GeneratorExp"}
FunctionKinds == {"FunctionDef", "AsyncFunctionDef"}

-----------------------------------------------------------------------------
(* LoopVisitor (finlinter/core/python_scanner.py) *)

\* mutation: every call is taken to be inside a loop
_is_in_loop_always(stack) == TRUE

_is_in_loop(stack) == Len(stack) > 0

\* mutation: only a pattern contained in the name matches
_matches_pattern_one_way(obj_name, method_name, obj_pattern, method_pattern) ==
    /\ \/ IsSubstring(obj_pattern, obj_name)
       \/ obj_pattern = ""
    /\ IsSubstring(method_pattern, method_name)

_matches_pattern(obj_name, method_name, obj_pattern, method_pattern) ==
    /\ \/ IsSubstring(obj_pattern, obj_name)
       \/ IsSubstring(obj_name, obj_pattern)
       \/ obj_pattern = ""
    /\ \/ IsSubstring(method_pattern, method_name)
       \/ IsSubstring(method_name, method_pattern)

\* Nothing, or Some(<<obj_name, method_name>>)
_extract_call_pattern(node) ==
    IF node.ftype = "Attribute" THEN
        IF node.vtype \in {"Name", "Attribute"}
        THEN Some(<<Lower(node.recv), Lower(node.attr)>>)
        ELSE IF node.vtype = "Call" /\ node.vftype = "Attribute"
        THEN Some(<<Lower(node.recv), Lower(node.attr)>>)
        ELSE Nothing
    ELSE IF node.ftype = "Name" THEN Some(<<"", Lower(node.attr)>>)
    ELSE Nothing

\* mutation: f-strings are not read
_extract_query_string_literal_only(node) ==
    IF node.argkind = "str" THEN Some(Lower(node.argtext)) ELSE Nothing

\* Nothing, or Some(lower-cased static text of the first positional argument)
_extract_query_string(node) ==
    IF node.argkind = "str" THEN Some(Lower(node.argtext))
    ELSE IF node.argkind = "fstring" THEN Some(Lower(node.argtext))
    ELSE Nothing

_has_pagination(query_str) ==
    \E kw \in PAGINATION_KEYWORDS : IsSubstring(kw, Lower(query_str))

\* index of the first rule of the table that matches, 0 if none does
FirstMatch(table, obj_name, method_name) ==
    LET hits == {k \in 1..Len(table) :
                    _matches_pattern(obj_name, method_name, table[k][1], table[k][2])}
    IN  IF hits = {} THEN 0 ELSE CHOOSE k \in hits : \A j \in hits : k <= j

PythonFinding(lineno, rule_id, rule_name, desc, severity, category) ==
    [line_number |-> lineno, rule_id |-> rule_id, rule_name |-> rule_name,
     desc |-> desc, severity |-> severity, category |-> category]

\* mutation: the hot path does not raise the severity
_add_finding_no_escalation(lineno, hot, rule_id, rule_name, desc, category, severity) ==
    PythonFinding(lineno, rule_id, rule_name, desc, severity, category)

\* the finding _add_finding appends
_add_finding(lineno, hot, rule_id, rule_name, desc, category, severity) ==
    PythonFinding(lineno, rule_id, rule_name, desc,
                  IF hot /\ severity = "medium" THEN "high" ELSE severity,
                  category)

\* the findings _check_unbounded_query appends
_check_unbounded_query(node, lineno, hot, obj_name, method_name) ==
    LET k == FirstMatch(UNBOUNDED_QUERY_PATTERNS, obj_name, method_name)
        q == _extract_query_string(node)
    IN  IF k # 0 /\ q # Nothing /\ q[1] # "" /\ ~_has_pagination(q[1])
        THEN <<_add_finding(lineno, hot, "PY004", "Unbounded Query",
                            UNBOUNDED_QUERY_PATTERNS[k][3], "database_read", "medium")>>
        ELSE <<>>

\* the findings one rule table contributes for a call inside a loop
TableFinding(table, lineno, hot, obj_name, method_name, rule_id, rule_name,
             category, severity) ==
    LET k == FirstMatch(table, obj_name, method_name)
    IN  IF k # 0
        THEN <<_add_finding(lineno, hot, rule_id, rule_name, table[k][3],
                            category, severity)>>
        ELSE <<>>

\* mutation: the header and the else clause of a loop are visited before
\* the loop is pushed
visit_Call_header_outside(node, lineno, stack, hot) ==
    LET pattern == _extract_call_pattern(node)
        inside  == IF node.field \in {"iter", "test", "orelse"}
                   THEN Front(stack) ELSE stack
    IN  IF pattern = Nothing THEN <<>>
        ELSE LET obj_name    == pattern[1][1]
                 method_name == pattern[1][2]
                 unbounded   == _check_unbounded_query(node, lineno, hot,
                                                       obj_name, method_name)
             IN  IF ~_is_in_loop(inside) THEN unbounded
                 ELSE unbounded
                      \o TableFinding(PY_DB_PATTERNS, lineno, hot, obj_name, method_name,
                                      "PY001", "Database Call in Loop",
                                      "database_read", "high")
                      \o TableFinding(PY_API_PATTERNS, lineno, hot, obj_name, method_name,
                                      "PY002", "API Call in Loop", "api_call", "high")
                      \o TableFinding(PY_SERIALIZATION_PATTERNS, lineno, hot,
                                      obj_name, method_name,
                                      "PY003", "Serialization in Loop",
                                      "serialization", "medium")

\* the findings visit_Call appends for one Call node
visit_Call(node, lineno, stack, hot) ==
    LET pattern == _extract_call_pattern(node)
    IN  IF pattern = Nothing THEN <<>>
        ELSE LET obj_name    == pattern[1][1]
                 method_name == pattern[1][2]
                 unbounded   == _check_unbounded_query(node, lineno, hot,
                                                       obj_name, method_name)
             IN  IF ~_is_in_loop(stack) THEN unbounded
                 ELSE unbounded
                      \o TableFinding(PY_DB_PATTERNS, lineno, hot, obj_name, method_name,
                                      "PY001", "Database Call in Loop",
                                      "database_read", "high")
                      \o TableFinding(PY_API_PATTERNS, lineno, hot, obj_name, method_name,
                                      "PY002", "API Call in Loop", "api_call", "high")
                      \o TableFinding(PY_SERIALIZATION_PATTERNS, lineno, hot,
                                      obj_name, method_name,
                                      "PY003", "Serialization in Loop",
                                      "serialization", "medium")

visit_FunctionDef_hot(name) ==
    \E kw \in PY_HOT_PATH_KEYWORDS : IsSubstring(kw, Lower(name))

-----------------------------------------------------------------------------
(* Lexical scanners: pattern tables.  A line is a sequence of lexemes; a   *)
(* regular expression of the source is represented by the set of lexemes   *)
(* of Lexemes in which re.search finds it (re.IGNORECASE), a pattern list  *)
(* by the sequence of these sets in the order of the source list.          *)
(* JS_*: finlinter/core/js_scanner.py; the others:                         *)
(* finlinter/core/java_scanner.py.                                         *)

Lexemes ==
    {"for (",
     "while (",
     "if (",
     "{",
     "}",
     "x = 1;",
     ".forEach(",
     ".map(",
     ".find(",
     ".findOne(",
     "repository.findById(",
     "JSON.stringify(",
     "JSON.parse(",
     "fetch(",
     "axios.get(",
     "new Promise(",
     "Promise.all(",
     "async (",
     "await ",
     "objectMapper.writeValueAsString(",
     "restTemplate.getForObject(",
     "jdbcTemplate.queryForObject(",
     "resultSet.next(",
     "dynamoDb.getItem(",
     "s3Client.getObject(",
     ".stream().",
     "handleRequest(",
     "@GetMapping"}

JS_LOOP_PATTERNS == <<
    {"for ("},
    {"while ("},
    {},
    {".forEach("},
    {".map("},
    {},
    {},
    {},
    {},
    {".find("},
    {},
    {},
    {} >>

JS_API_CALL_PATTERNS == <<
    <<{"fetch("}, "fetch() call">>,
    <<{"axios.get("}, "axios HTTP call">>,
    <<{}, "axios HTTP call">>,
    <<{}, "HTTP library call">>,
    <<{}, "request() call">>,
    <<{}, "got() HTTP call">>,
    <<{}, "superagent HTTP call">>,
    <<{}, "jQuery AJAX call">>,
    <<{}, "jQuery HTTP call">> >>

JS_DB_PATTERNS == <<
    <<{".find("}, "MongoDB find()">>,
    <<{".findOne("}, "MongoDB findOne()">>,
    <<{"repository.findById("}, "MongoDB findById()">>,
    <<{}, "Database findMany()">>,
    <<{}, "MongoDB aggregate()">>,
    <<{}, "MongoDB updateOne()">>,
    <<{}, "MongoDB updateMany()">>,
    <<{}, "MongoDB deleteOne()">>,
    <<{}, "MongoDB collection operation">>,
    <<{}, "Database query()">>,
    <<{}, "Database execute()">>,
    <<{"dynamoDb.getItem("}, "DynamoDB operation">>,
    <<{"dynamoDb.getItem("}, "DynamoDB operation">>,
    <<{"dynamoDb.getItem("}, "DynamoDB getItem()">>,
    <<{}, "DynamoDB putItem()">>,
    <<{}, "Redis operation">> >>

JS_PROMISE_PATTERNS == <<
    <<{"new Promise("}, "Promise creation">>,
    <<{"Promise.all("}, "Promise.all()">>,
    <<{}, "Promise.race()">>,
    <<{"async ("}, "async arrow function">>,
    <<{"await "}, "await expression">> >>

JS_SERIALIZATION_PATTERNS == <<
    <<{"JSON.parse("}, "JSON.parse()">>,
    <<{"JSON.stringify("}, "JSON.stringify()">> >>

JS_HOT_PATH_PATTERNS == <<
    {"handleRequest("},
    {"restTemplate.getForObject(", "dynamoDb.getItem(", "s3Client.getObject(", "@GetMapping"},
    {} >>

JAVA_LOOP_PATTERNS == <<
    {"for ("},
    {"while ("},
    {},
    {".forEach("},
    {".stream()."},
    {} >>

SPRING_DATA_PATTERNS == <<
    <<{"repository.findById("}, "Spring Data Repository find">>,
    <<{"repository.findById("}, "Spring Data findById()">>,
    <<{}, "Spring Data findAll()">>,
    <<{"repository.findById("}, "Spring Data findBy*()">>,
    <<{}, "Spring Data Repository get">>,
    <<{}, "Spring Data Repository save">>,
    <<{}, "Spring Data Repository delete">>,
    <<{}, "Repository find">>,
    <<{}, "DAO find">>,
    <<{}, "DAO get">>,
    <<{}, "JPA EntityManager find">>,
    <<{}, "JPA EntityManager createQuery">>,
    <<{}, "Hibernate Session get">>,
    <<{}, "Hibernate Session load">>,
    <<{}, "Hibernate Session createQuery">> >>

REST_TEMPLATE_PATTERNS == <<
    <<{"restTemplate.getForObject("}, "RestTemplate getForObject()">>,
    <<{}, "RestTemplate getForEntity()">>,
    <<{}, "RestTemplate postForObject()">>,
    <<{}, "RestTemplate postForEntity()">>,
    <<{}, "RestTemplate exchange()">>,
    <<{}, "RestTemplate execute()">>,
    <<{}, "RestTemplate delete()">>,
    <<{}, "RestTemplate put()">>,
    <<{}, "WebClient GET">>,
    <<{}, "WebClient POST">>,
    <<{}, "HttpClient execute">>,
    <<{}, "HttpURLConnection">>,
    <<{}, "URL openConnection()">> >>

OBJECT_MAPPER_PATTERNS == <<
    <<{"objectMapper.writeValueAsString("}, "ObjectMapper writeValueAsString()">>,
    <<{}, "ObjectMapper writeValueAsBytes()">>,
    <<{}, "ObjectMapper readValue()">>,
    <<{}, "ObjectMapper readTree()">>,
    <<{"objectMapper.writeValueAsString("}, "ObjectMapper writeValueAsString()">>,
    <<{}, "ObjectMapper readValue()">>,
    <<{}, "Gson toJson()">>,
    <<{}, "Gson fromJson()">>,
    <<{}, "Gson toJson()">> >>

JDBC_PATTERNS == <<
    <<{"jdbcTemplate.queryForObject("}, "JdbcTemplate query()">>,
    <<{"jdbcTemplate.queryForObject("}, "JdbcTemplate queryForObject()">>,
    <<{}, "JdbcTemplate queryForList()">>,
    <<{}, "JdbcTemplate update()">>,
    <<{}, "JdbcTemplate execute()">>,
    <<{}, "Statement executeQuery()">>,
    <<{}, "Statement execute()">>,
    <<{}, "PreparedStatement executeQuery()">>,
    <<{}, "PreparedStatement execute()">>,
    <<{}, "Connection prepareStatement()">>,
    <<{"resultSet.next("}, "ResultSet iteration">> >>

AWS_PATTERNS == <<
    <<{"dynamoDb.getItem("}, "DynamoDB getItem()">>,
    <<{}, "DynamoDB putItem()">>,
    <<{}, "DynamoDB query()">>,
    <<{}, "DynamoDB scan()">>,
    <<{"s3Client.getObject("}, "S3 getObject()">>,
    <<{}, "S3 putObject()">>,
    <<{}, "SNS publish()">>,
    <<{}, "SQS sendMessage()">>,
    <<{}, "Lambda invoke()">> >>

JAVA_HOT_PATH_PATTERNS == <<
    {"@GetMapping"},
    {},
    {"handleRequest("},
    {},
    {},
    {},
    {},
    {} >>

JS_HOT_PATH_WINDOW == 20
JAVA_HOT_PATH_WINDOW == 30

-----------------------------------------------------------------------------
(* Lexical scanners: helpers *)

\* line.count(ch)
Count(line, ch) == Cardinality({k \in 1..Len(line) : line[k] = ch})

\* regex.search(line) for the regex represented by the lexeme set rx
Search(rx, line) == \E k \in 1..Len(line) : line[k] \in rx

\* _is_loop_start(line)
_is_loop_start(loop_regexes, line) ==
    \E r \in 1..Len(loop_regexes) : Search(loop_regexes[r], line)

\* _is_hot_path(lines, current_line): current_line is 0-based; the context is
\* lines[start:current_line] joined by newlines
_is_hot_path(hot_path_regexes, window, lines, current_line) ==
    LET start == IF current_line - window > 0 THEN current_line - window ELSE 0
    IN  \E r \in 1..Len(hot_path_regexes) :
            \E k \in (start + 1)..current_line : Search(hot_path_regexes[r], lines[k])

\* index of the first pattern of the list found in the line, 0 if none
FirstSearch(regexes, line) ==
    LET hits == {k \in 1..Len(regexes) : Search(regexes[k][1], line)}
    IN  IF hits = {} THEN 0 ELSE CHOOSE k \in hits : \A j \in hits : k <= j

LexFinding(line_num, rule_id, rule_name, desc, severity, category) ==
    [line_number |-> line_num, rule_id |-> rule_id, rule_name |-> rule_name,
     desc |-> desc, severity |-> severity, category |-> category]

-----------------------------------------------------------------------------
(* JavaScriptScanner.scan (finlinter/core/js_scanner.py) *)

\* one iteration of `for _ in range(close_braces)` on [stack, depth]
JsCloseBrace(st) ==
    IF st.stack # <<>> /\ st.depth > 0
    THEN LET popped == Front(st.stack)
         IN  [stack |-> popped,
              depth |-> IF popped = <<>> THEN 0 ELSE Last(popped)]
    ELSE st

RECURSIVE JsCloseBraces(_, _)
JsCloseBraces(st, n) ==
    IF n = 0 THEN st ELSE JsCloseBraces(JsCloseBrace(st), n - 1)

\* mutation: the line is marked by the loop depth it begins with
JsFirstPassLine_marks_before(line, stack, depth) ==
    LET close_braces == Count(line, "}")
        starts == _is_loop_start(JS_LOOP_PATTERNS, line)
        depth1 == IF starts THEN depth + 1 ELSE depth
        stack1 == IF starts THEN Append(stack, depth1) ELSE stack
        after  == JsCloseBraces([stack |-> stack1, depth |-> depth1], close_braces)
    IN  [stack |-> after.stack, depth |-> after.depth, marked |-> depth > 0]

\* first pass, one line: the new [stack, depth, marked]
JsFirstPassLine(line, stack, depth) ==
    LET close_braces == Count(line, "}")
        starts == _is_loop_start(JS_LOOP_PATTERNS, line)
        depth1 == IF starts THEN depth + 1 ELSE depth
        stack1 == IF starts THEN Append(stack, depth1) ELSE stack
        after  == JsCloseBraces([stack |-> stack1, depth |-> depth1], close_braces)
    IN  [stack |-> after.stack, depth |-> after.depth, marked |-> depth1 > 0]

\* the promise pattern the loop over promise_regexes reports, 0 if none
JsPromiseMatch(line) ==
    LET hits == {k \in 1..Len(JS_PROMISE_PATTERNS) :
                    /\ Search(JS_PROMISE_PATTERNS[k][1], line)
                    /\ ~IsSubstring("await", JS_PROMISE_PATTERNS[k][2])
                    /\ \/ IsSubstring("creation", JS_PROMISE_PATTERNS[k][2])
                       \/ IsSubstring("async", Lower(JS_PROMISE_PATTERNS[k][2]))}
    IN  IF hits = {} THEN 0 ELSE CHOOSE k \in hits : \A j \in hits : k <= j

\* second pass, one line (i is 0-based): the findings appended for it
JsSecondPassLine(lines, i, in_loop) ==
    LET line        == lines[i + 1]
        line_num    == i + 1
        is_hot_path == _is_hot_path(JS_HOT_PATH_PATTERNS, JS_HOT_PATH_WINDOW, lines, i)
        api  == FirstSearch(JS_API_CALL_PATTERNS, line)
        db   == FirstSearch(JS_DB_PATTERNS, line)
        prom == JsPromiseMatch(line)
        ser  == FirstSearch(JS_SERIALIZATION_PATTERNS, line)
    IN  IF ~in_loop THEN <<>>
        ELSE (IF api # 0
              THEN <<LexFinding(line_num, "JS001", "API Call in Loop",
                                JS_API_CALL_PATTERNS[api][2],
                                IF is_hot_path THEN "high" ELSE "high", "api_call")>>
              ELSE <<>>)
          \o (IF db # 0
              THEN <<LexFinding(line_num, "JS002", "Database Call in Loop",
                                JS_DB_PATTERNS[db][2],
                                IF is_hot_path THEN "high" ELSE "high", "database_read")>>
              ELSE <<>>)
          \o (IF prom # 0
              THEN <<LexFinding(line_num, "JS003", "Async Fan-out in Loop",
                                JS_PROMISE_PATTERNS[prom][2], "medium", "api_call")>>
              ELSE <<>>)
          \o (IF ser # 0
              THEN <<LexFinding(line_num, "JS004", "Serialization in Loop",
                                JS_SERIALIZATION_PATTERNS[ser][2], "medium",
                                "serialization")>>
              ELSE <<>>)

-----------------------------------------------------------------------------
(* JavaScanner (finlinter/core/java_scanner.py) *)

\* mutation: a loop is popped as soon as the brace depth is back at its floor
RECURSIVE JavaPopLoops_at_floor(_)
JavaPopLoops_at_floor(st) ==
    IF st.floors # <<>> /\ st.braces <= Last(st.floors)
    THEN JavaPopLoops_at_floor([st EXCEPT !.floors = Front(st.floors),
                                          !.loops = IF st.loops - 1 > 0 THEN st.loops - 1 ELSE 0])
    ELSE st

\* mutation: a popped loop is not taken off loop_depth
RECURSIVE JavaPopLoops_keeps_depth(_)
JavaPopLoops_keeps_depth(st) ==
    IF st.floors # <<>> /\ st.braces < Last(st.floors)
    THEN JavaPopLoops_keeps_depth([st EXCEPT !.floors = Front(st.floors)])
    ELSE st

\* `while loop_start_depths and brace_depth < loop_start_depths[-1]`
RECURSIVE JavaPopLoops(_)
JavaPopLoops(st) ==
    IF st.floors # <<>> /\ st.braces < Last(st.floors)
    THEN JavaPopLoops([st EXCEPT !.floors = Front(st.floors),
                                 !.loops = IF st.loops - 1 > 0 THEN st.loops - 1 ELSE 0])
    ELSE st

\* one character of `for char in line` on [floors, braces, loops]
JavaChar(st, ch) ==
    IF ch = "{" THEN [st EXCEPT !.braces = st.braces + 1]
    ELSE IF ch = "}" THEN JavaPopLoops([st EXCEPT !.braces = st.braces - 1])
    ELSE st

RECURSIVE JavaChars(_, _)
JavaChars(st, line) ==
    IF line = <<>> THEN st ELSE JavaChars(JavaChar(st, Head(line)), Tail(line))

\* _find_loops, one line: the new [floors, braces, loops]; the line is
\* marked when loops > 0 afterwards
JavaFindLoopsLine(line, floors, braces, loops) ==
    LET starts == _is_loop_start(JAVA_LOOP_PATTERNS, line)
        st0 == [floors |-> IF starts THEN Append(floors, braces) ELSE floors,
                braces |-> braces,
                loops  |-> IF starts THEN loops + 1 ELSE loops]
    IN  JavaChars(st0, line)

\* the JDBC pattern reported: matches of a "ResultSet" pattern are skipped
JavaJdbcMatch(line) ==
    LET hits == {k \in 1..Len(JDBC_PATTERNS) :
                    /\ Search(JDBC_PATTERNS[k][1], line)
                    /\ ~IsSubstring("ResultSet", JDBC_PATTERNS[k][2])}
    IN  IF hits = {} THEN 0 ELSE CHOOSE k \in hits : \A j \in hits : k <= j

\* scan, one line (i is 0-based): the findings appended for it
JavaScanLine(lines, i, in_loop) ==
    LET line          == lines[i + 1]
        line_num      == i + 1
        is_hot_path   == _is_hot_path(JAVA_HOT_PATH_PATTERNS, JAVA_HOT_PATH_WINDOW,
                                      lines, i)
        base_severity == IF is_hot_path THEN "high" ELSE "high"
        spring == FirstSearch(SPRING_DATA_PATTERNS, line)
        rest   == FirstSearch(REST_TEMPLATE_PATTERNS, line)
        mapper == FirstSearch(OBJECT_MAPPER_PATTERNS, line)
        jdbc   == JavaJdbcMatch(line)
        aws    == FirstSearch(AWS_PATTERNS, line)
    IN  IF ~in_loop THEN <<>>
        ELSE (IF spring # 0
              THEN <<LexFinding(line_num, "JAVA001", "Spring Data Call in Loop",
                                SPRING_DATA_PATTERNS[spring][2], base_severity,
                                "database_read")>>
              ELSE <<>>)
          \o (IF rest # 0
              THEN <<LexFinding(line_num, "JAVA002", "HTTP Call in Loop",
                                REST_TEMPLATE_PATTERNS[rest][2], base_severity,
                                "api_call")>>
              ELSE <<>>)
          \o (IF mapper # 0
              THEN <<LexFinding(line_num, "JAVA003", "Serialization in Loop",
                                OBJECT_MAPPER_PATTERNS[mapper][2], "medium",
                                "serialization")>>
              ELSE <<>>)
          \o (IF jdbc # 0
              THEN <<LexFinding(line_num, "JAVA004", "JDBC Call in Loop",
                                JDBC_PATTERNS[jdbc][2], base_severity,
                                "database_read")>>
              ELSE <<>>)
          \o (IF aws # 0
              THEN <<LexFinding(line_num, "JAVA005", "AWS SDK Call in Loop",
                                AWS_PATTERNS[aws][2], base_severity,
                                IF IsSubstring("DynamoDB", AWS_PATTERNS[aws][2])
                                THEN "database_read" ELSE "api_call")>>
              ELSE <<>>)

-----------------------------------------------------------------------------
(* Conversion of the internal findings to Finding objects, with the cost   *)
(* estimate (the tail of PythonScanner.scan, JavaScriptScanner.scan and    *)
(* JavaScanner.scan)                                                       *)

PY_COST_CATEGORY_MAP == {"database_read", "database_write", "api_call", "serialization"}
JS_COST_CATEGORY_MAP == {"database_read", "api_call", "serialization"}
JAVA_COST_CATEGORY_MAP == {"database_read", "api_call", "serialization"}

Finding(path, f, severity, cost_estimate) ==
    [file_path |-> path, line_number |-> f.line_number, rule_id |-> f.rule_id,
     rule_name |-> f.rule_name, desc |-> f.desc, severity |-> severity,
     category |-> f.category, estimated_cost |-> cost_estimate]

\* mutation: the cost severity is copied whatever it is
PyToFinding_copies_cost(path, pf) ==
    IF pf.category \in PY_COST_CATEGORY_MAP
    THEN LET est == estimate(pf.category, Nothing)
         IN  Finding(path, pf, est.severity, Some(CostEstimate_to_dict(est)))
    ELSE Finding(path, pf, pf.severity, Nothing)

PyToFinding(path, pf) ==
    IF pf.category \in PY_COST_CATEGORY_MAP
    THEN LET est == estimate(pf.category, Nothing)
         IN  Finding(path, pf,
                     IF est.severity \in {"high", "critical"}
                     THEN est.severity ELSE pf.severity,
                     Some(CostEstimate_to_dict(est)))
    ELSE Finding(path, pf, pf.severity, Nothing)

LexToFinding(cost_category_map, path, jf) ==
    IF jf.category \in cost_category_map
    THEN Finding(path, jf, jf.severity,
                 Some(CostEstimate_to_dict(estimate(jf.category, Nothing))))
    ELSE Finding(path, jf, jf.severity, Nothing)

-----------------------------------------------------------------------------
(* Dispatcher (finlinter/core/scanner_dispatch.py) *)

Language == {"python", "javascript", "java", "unknown"}

EXTENSION_MAP ==
    [e \in {".py", ".pyw", ".js", ".mjs", ".cjs", ".jsx", ".ts", ".tsx", ".java"} |->
        CASE e \in {".py", ".pyw"} -> "python"
          [] e \in {".js", ".mjs", ".cjs", ".jsx", ".ts", ".tsx"} -> "javascript"
          [] e = ".java" -> "java"]

\* position of the last occurrence of the character ch in s, 0 if none
RFind(s, ch) ==
    LET at == {k \in 1..Len(s) : SubSeq(s, k, k) = ch}
    IN  IF at = {} THEN 0 ELSE CHOOSE k \in at : \A j \in at : j <= k

\* Path(p).suffix: the final component's last dot and what follows it, unless
\* the dot is the component's first or last character
Suffix(p) ==
    LET name == SubSeq(p, RFind(p, "/") + 1, Len(p))
        dot  == RFind(name, ".")
    IN  IF dot > 1 /\ dot < Len(name) THEN SubSeq(name, dot, Len(name)) ELSE ""

python_indicators ==
    <<"def ", "import ", "from ", "class ", "::", "self.",
      "elif ", "except:", "with open", "__init__">>

js_indicators ==
    <<"const ", "let ", "var ", "function ", "=> ",
      "require(", "import ", "export ", "async ", "await ",
      "console.log", ".then(", ".catch(">>

java_indicators ==
    <<"public class", "private ", "protected ", "static void main",
      "system.out", "@override", "@autowired", "new ",
      "throws ", "implements ", "extends ">>

\* `ind in code_lower`: words maps each keyword-bearing piece of the text to
\* the number of times it occurs
Occurs(ind, words) == \E w \in DOMAIN words : IsSubstring(ind, Lower(w))

Score(indicators, words) ==
    Cardinality({k \in 1..Len(indicators) : Occurs(indicators[k], words)})

Max3(a, b, c) ==
    LET m == IF a >= b THEN a ELSE b IN IF m >= c THEN m ELSE c

\* mutation: the all-zero case is not singled out
_detect_from_content_no_zero_check(c) ==
    LET python_score == Score(python_indicators, c.words)
        js_score     == Score(js_indicators, c.words)
        java_score   == Score(java_indicators, c.words)
        max_score    == Max3(python_score, js_score, java_score)
    IN  IF python_score = max_score THEN "python"
        ELSE IF js_score = max_score THEN "javascript"
        ELSE "java"

\* mutation: a tie goes to the last language of the order
_detect_from_content_last_wins(c) ==
    LET python_score == Score(python_indicators, c.words)
        js_score     == Score(js_indicators, c.words)
        java_score   == Score(java_indicators, c.words)
        max_score    == Max3(python_score, js_score, java_score)
    IN  IF max_score = 0 THEN "unknown"
        ELSE IF java_score = max_score THEN "java"
        ELSE IF js_score = max_score THEN "javascript"
        ELSE "python"

_detect_from_content(c) ==
    LET python_score == Score(python_indicators, c.words)
        js_score     == Score(js_indicators, c.words)
        java_score   == Score(java_indicators, c.words)
        max_score    == Max3(python_score, js_score, java_score)
    IN  IF max_score = 0 THEN "unknown"
        ELSE IF python_score = max_score THEN "python"
        ELSE IF js_score = max_score THEN "javascript"
        ELSE IF java_score = max_score THEN "java"
        ELSE "unknown"

\* mutation: the extension is looked up as written, not lower-cased
ExtensionMapped_case_sensitive(path) ==
    path # "" /\ Suffix(path) \in DOMAIN EXTENSION_MAP

\* detect_language takes the extension branch
ExtensionMapped(path) ==
    path # "" /\ Lower(Suffix(path)) \in DOMAIN EXTENSION_MAP

detect_language(path, c) ==
    IF ExtensionMapped(path) THEN EXTENSION_MAP[Lower(Suffix(path))]
    ELSE IF ~c.text_empty THEN _detect_from_content(c)
    ELSE "unknown"

\* the language argument of scan_code: a Language member, a str or None
LangNone == [type |-> "None", value |-> ""]
LangEnum(v) == [type |-> "Language", value |-> v]
LangStr(v) == [type |-> "str", value |-> v]

\* mutation: a str is looked up as written, not lower-cased
NormalizeLanguage_case_sensitive(arg) ==
    IF arg.type = "str"
    THEN IF arg.value \in Language THEN Some(arg.value) ELSE Nothing
    ELSE IF arg.type = "Language" THEN Some(arg.value)
    ELSE Nothing

\* `Language(language.lower())`, None on ValueError; Nothing stands for None
NormalizeLanguage(arg) ==
    IF arg.type = "str"
    THEN IF Lower(arg.value) \in Language THEN Some(Lower(arg.value)) ELSE Nothing
    ELSE IF arg.type = "Language" THEN Some(arg.value)
    ELSE Nothing

NeedsDetection(arg) ==
    NormalizeLanguage(arg) = Nothing \/ NormalizeLanguage(arg) = Some("unknown")

ScanResult(path, lang, fs, error) ==
    [file_path |-> path, language |-> lang, findings |-> fs, error |-> error]

-----------------------------------------------------------------------------
(* The explored inputs *)

EmptyBag == [w \in {} |-> 0]

\* fault: Nothing, or Some of the place where the Python scanner raises an
\* exception other than SyntaxError and of its message: at 0 in ast.parse,
\* at k while the visitor is below node k (RecursionError on a deep expression)
Code(tree, parse_ok, lines, words, text_empty) ==
    [tree |-> tree, parse_ok |-> parse_ok, lines |-> lines, words |-> words,
     text_empty |-> text_empty, fault |-> Nothing]

Faulty(c, at, message) == [c EXCEPT !.fault = Some([at |-> at, message |-> message])]

\* the scanner raises at this place
RaisesAt(c, at) == c.fault # Nothing /\ c.fault[1].at = at

\* the line of a for statement that opens its block
ForLine == <<"for (", "{">>

\* the sequences of n elements of core, and those with one element of
\* extra among them
Labelings(core, extra, n) ==
    [1..n -> core] \cup
    {[s EXCEPT ![i] = x] : s \in [1..n -> core], i \in 1..n, x \in extra}

\* Python: the nodes the trees are built from
PyCoreNodes ==
    {PyNode("FunctionDef", "handle_request"),
     PyNode("FunctionDef", "helper"),
     PyNode("For", ""),
     PyMethodCall("db", "get", "other", ""),
     PyMethodCall("json", "dumps", "other", "")}

PyExtraNodes ==
    {PyNode("AsyncFunctionDef", "process_item"),
     PyNode("While", ""),
     PyNode("AsyncFor", ""),
     PyNode("ListComp", ""),
     PyNode("DictComp", ""),
     PyNode("SetComp", ""),
     PyNode("GeneratorExp", ""),
     PyNode("If", ""),
     PyMethodCall("requests", "get", "other", ""),
     PyMethodCall("cursor", "execute", "str", "SELECT * FROM t"),
     PyMethodCall("cursor", "execute", "str", "SELECT * FROM t LIMIT 9"),
     PyMethodCall("cursor", "execute", "str", ""),
     PyMethodCall("cursor", "execute", "other", ""),
     PyMethodCall("cursor", "execute", "none", ""),
     PyMethodCall("cursor", "execute", "bytes", "SELECT * FROM t"),
     PyMethodCall("cursor", "execute", "fstring", "SELECT * FROM "),
     PyMethodCall("cursor", "execute", "fstring", ""),
     PyMethodCall("DB", "Query", "str", "Select 1"),
     PyMethodCall("session", "get", "other", ""),
     PyMethodCall("yaml", "load", "other", ""),
     PyCall("Name", "", "", "", "dumps", "other", ""),
     PyCall("Name", "", "", "", "print", "other", ""),
     PyCall("Attribute", "Attribute", "", "table", "scan", "str", "users"),
     PyCall("Attribute", "Call", "Attribute", "collection", "find", "none", ""),
     PyCall("Attribute", "Call", "Name", "connect", "find", "str", "x"),
     PyCall("Other", "", "", "", "", "str", "SELECT * FROM t")}

MaxNodesWide == 2   \* nodes of a tree that holds one of the extra nodes

\* the depths of the nodes of a tree of n nodes, in pre-order: the first
\* node is a child of the module (depth 0), every other node lies at most
\* one level below its predecessor
RECURSIVE PyShapes(_)
PyShapes(n) ==
    IF n = 0 THEN {<<>>}
    ELSE IF n = 1 THEN {<<0>>}
    ELSE UNION {{Append(sh, d) : d \in 0..(Last(sh) + 1)} : sh \in PyShapes(n - 1)}

\* the trees of at most n nodes over the core nodes and at most one extra node
PyTrees(core, extra, n) ==
    UNION {{[i \in 1..k |-> [lab[i] EXCEPT !.depth = sh[i]]] :
               lab \in Labelings(core, extra, k), sh \in PyShapes(k)} : k \in 0..n}

\* the calls placed in the fields of a loop construct
PyHeaderCalls ==
    {PyMethodCall("cursor", "fetchall", "other", ""),
     PyMethodCall("requests", "get", "other", ""),
     PyMethodCall("json", "dumps", "other", ""),
     PyCall("Name", "", "", "", "print", "other", "")}

\* the fields of a statement loop that hold expressions or statements
PyLoopFields(kind) ==
    IF kind = "For" THEN {"iter", "body", "orelse"}
    ELSE IF kind = "While" THEN {"test", "body", "orelse"}
    ELSE {}

PyComprehensionKinds == {"ListComp", "DictComp", "SetComp", "GeneratorExp"}

\* one loop construct with one call in one of its fields:
\*   for x in CALL: ..      while CALL: ..      for ..: .. else: CALL
\*   [CALL for x in xs]     [x for x in CALL]
PyLoopWithCall ==
    UNION {{<<PyNode(kind, ""), [InField(c, f) EXCEPT !.depth = 1]>> :
               c \in PyHeaderCalls, f \in PyLoopFields(kind)} :
           kind \in {"For", "While"}}
    \cup {<<PyNode(kind, ""), [InField(c, "elt") EXCEPT !.depth = 1]>> :
             kind \in PyComprehensionKinds, c \in PyHeaderCalls}
    \cup {<<PyNode(kind, ""),
            [InField(PyNode("comprehension", ""), "generators") EXCEPT !.depth = 1],
            [InField(c, "iter") EXCEPT !.depth = 2]>> :
             kind \in PyComprehensionKinds, c \in PyHeaderCalls}

\* the same, and the statement loops inside a function as well
PyHeaderTrees ==
    PyLoopWithCall
    \cup {<<PyNode("FunctionDef", "handle_request")>>
            \o [i \in 1..Len(t) |-> [t[i] EXCEPT !.depth = @ + 1]] :
          t \in {u \in PyLoopWithCall : u[1].kind \in {"For", "While"}}}

PyInputs ==
    {[code |-> Code(t, TRUE, <<>>, EmptyBag, t = <<>>),
      language_arg |-> LangEnum("python"), file_path |-> "<input>"] :
        t \in PyTrees(PyCoreNodes, {}, MaxNodes)
              \cup PyTrees(PyCoreNodes, PyExtraNodes, MaxNodesWide)
              \cup PyHeaderTrees}

\* Python sources on which ast.parse or the visitor raises
FaultMessages ==
    {"maximum recursion depth exceeded during ast construction",
     "maximum recursion depth exceeded", ""}

PyFaultInputs ==
    UNION {{[code |-> Faulty(Code(t, TRUE, <<>>, EmptyBag, FALSE), at, msg),
             language_arg |-> LangEnum("python"), file_path |-> "<input>"] :
               at \in 0..Len(t), msg \in FaultMessages} :
           t \in PyTrees(PyCoreNodes, {}, MaxNodesWide)}

\* JavaScript and Java: the lines the sources are built from
JsCoreLines ==
    {<<"for (", "{">>,              \* for (const id of ids) {
     <<"}">>,
     <<".findOne(", "{", "}">>,     \* db.users.findOne({ id });
     <<"JSON.stringify(">>}

JsExtraLines ==
    {<<"handleRequest(", "{">>,     \* function handleRequest(req) {
     <<".findOne(">>,               \* db.users.findOne(id);
     <<".find(">>,                  \* users.find(isActive);
     <<".map(">>,                   \* ids.map(load)
     <<"fetch(">>,
     <<"new Promise(">>,
     <<"Promise.all(", "async (">>}  \* Promise.all(batch.map(async (x) => f(x)));

JavaCoreLines ==
    {<<"for (", "{">>,              \* for (Long id : ids) {
     <<"}">>,
     <<"repository.findById(">>,
     <<"objectMapper.writeValueAsString(">>}

JavaExtraLines ==
    {<<"handleRequest(", "{">>,     \* public void handleRequest(Request r) {
     <<"if (", "{">>,
     <<"restTemplate.getForObject(">>,
     <<"jdbcTemplate.queryForObject(">>}

\* the sources of at most n lines over the core lines and at most one extra line
Sources(core, extra, n) == UNION {Labelings(core, extra, k) : k \in 0..n}

LexInputs ==
    {[code |-> Code(<<>>, FALSE, ls, EmptyBag, ls = <<>>),
      language_arg |-> LangEnum("javascript"), file_path |-> "<input>"] :
        ls \in Sources(JsCoreLines, JsExtraLines, MaxLines)}
    \cup
    {[code |-> Code(<<>>, FALSE, ls, EmptyBag, ls = <<>>),
      language_arg |-> LangEnum("java"), file_path |-> "<input>"] :
        ls \in Sources(JavaCoreLines, JavaExtraLines, MaxLines)}

\* Dispatcher: language arguments, paths and contents
LanguageArgs ==
    {LangNone, LangEnum("unknown"), LangEnum("python"), LangEnum("java"),
     LangStr("JavaScript"), LangStr("PYTHON"), LangStr("unknown"), LangStr("cobol")}

Paths ==
    {"<input>", "", "a.py", "A.PY", "b.pyw", "c.js", "d.mjs", "e.cjs", "f.jsx",
     "g.ts", "h.tsx", "src/App.java", "notes.txt", "Makefile", ".py",
     "dir.py/Makefile", "x.tar.py"}

Bag1(w, n) == [x \in {w} |-> n]
Bag2(w1, n1, w2, n2) == [x \in {w1, w2} |-> IF x = w1 THEN n1 ELSE n2]

Contents ==
    {EmptyBag, Bag1("def ", 1), Bag1("Import ", 2), Bag1("const ", 3),
     Bag1("public class Foo", 1), Bag2("def ", 1, "new ", 1),
     Bag2("function ", 1, "await ", 1), Bag2("private ", 1, "throws ", 1),
     Bag2("const ", 1, "new ", 1), Bag2("def ", 3, "async function ", 1)}

DispatchInputs ==
    {[code |-> Code(<<>>, ok, <<>>, w, FALSE), language_arg |-> a, file_path |-> p] :
        ok \in BOOLEAN, w \in Contents, a \in LanguageArgs, p \in Paths}
    \cup
    {[code |-> Code(<<>>, TRUE, <<>>, EmptyBag, TRUE), language_arg |-> a,
      file_path |-> p] : a \in LanguageArgs, p \in Paths}

Inputs == PyInputs \cup PyFaultInputs \cup LexInputs \cup DispatchInputs

-----------------------------------------------------------------------------
(* The state machine: one call of ScannerDispatch.scan_code *)

Init ==
    /\ \E inp \in Inputs :
          /\ code = inp.code
          /\ language_arg = inp.language_arg
          /\ file_path = inp.file_path
    /\ language = Nothing
    /\ content_scored = FALSE
    /\ pc = "start"
    /\ node_idx = 1
    /\ loop_stack = <<>>
    /\ fn_stack = <<>>
    /\ in_hot_path = FALSE
    /\ current_function = Nothing
    /\ line_idx = 0
    /\ loop_depth = 0
    /\ brace_depth = 0
    /\ brace_stack = <<>>
    /\ loop_start_depths = <<>>
    /\ in_loop_lines = {}
    /\ findings = <<>>
    /\ out_findings = <<>>
    /\ result = Nothing
    /\ directory = Nothing
    /\ dir_idx = 0
    /\ results = <<>>
    /\ estimates = <<>>
    /\ cost_ret = Nothing

\* what scan_code does not assign: its arguments and its caller's variables
dir_vars == <<directory, dir_idx, results>>
cost_vars == <<estimates, cost_ret>>
input_vars == <<code, language_arg, file_path, dir_vars, cost_vars>>
py_vars == <<node_idx, loop_stack, fn_stack, in_hot_path, current_function>>
lex_vars == <<line_idx, loop_depth, brace_depth, brace_stack, loop_start_depths,
              in_loop_lines>>

ScannerEntry(lang) ==
    CASE lang = "python"     -> "py_parse"
      [] lang = "javascript" -> "js_first_pass"
      [] lang = "java"       -> "java_find_loops"

\* scan_code up to the call of scanner.scan: normalise the language
\* argument, detect the language if needed, give up if it is unknown
ResolveLanguage ==
    /\ pc = "start"
    /\ LET lang == IF NeedsDetection(language_arg)
                   THEN detect_language(file_path, code)
                   ELSE NormalizeLanguage(language_arg)[1]
       IN  /\ language' = Some(lang)
           /\ content_scored' = (/\ NeedsDetection(language_arg)
                                 /\ ~ExtensionMapped(file_path)
                                 /\ ~code.text_empty)
           /\ IF lang = "unknown"
              THEN /\ result' = Some(ScanResult(file_path, lang, <<>>,
                                     Some("Could not detect programming language")))
                   /\ pc' = "done"
              ELSE /\ result' = result
                   /\ pc' = ScannerEntry(lang)
    /\ UNCHANGED <<input_vars, py_vars, lex_vars, findings, out_findings>>

\* mutation: a SyntaxError ends the scan without a ScanResult
PyParse_syntax_error_fatal ==
    /\ pc = "py_parse"
    /\ pc' = IF RaisesAt(code, 0) THEN "except"
             ELSE IF code.parse_ok THEN "py_visit" ELSE "done"
    /\ UNCHANGED <<input_vars, language, content_scored, py_vars, lex_vars,
                   findings, out_findings, result>>

\* PythonScanner.scan: ast.parse; a SyntaxError returns the empty list, any
\* other exception leaves the scanner
PyParse ==
    /\ pc = "py_parse"
    /\ IF RaisesAt(code, 0)
       THEN /\ pc' = "except"
            /\ out_findings' = out_findings
       ELSE IF code.parse_ok
       THEN /\ pc' = "py_visit"
            /\ out_findings' = out_findings
       ELSE /\ pc' = "return"
            /\ out_findings' = <<>>
    /\ UNCHANGED <<input_vars, language, content_scored, py_vars, lex_vars,
                   findings, result>>

\* leaving the open constructs that do not enclose a node of depth d:
\* visit_For & co. pop the loop stack, visit_FunctionDef restores
\* current_function and in_hot_path
LeaveLoops(stack, d) ==
    SelectSeq(stack, LAMBDA k : code.tree[k].depth < d)

LeaveFunctions(stack, d) ==
    SelectSeq(stack, LAMBDA fr : fr.depth < d)

\* the value of a variable visit_FunctionDef saves, after leaving to depth d
Restored(stack, d, field, current) ==
    LET left == SelectSeq(stack, LAMBDA fr : fr.depth >= d)
    IN  IF left = <<>> THEN current ELSE left[1][field]

\* LoopVisitor.visit on the next node in pre-order.  When the visitor raises
\* below the node (generic_visit on a deep expression, after the node's own
\* visit_* code has run), the exception unwinds the traversal and leaves
\* PythonScanner.scan: no visit_* method has a try statement, so nothing is
\* popped or restored.
PyVisit ==
    /\ pc = "py_visit"
    /\ node_idx <= Len(code.tree)
    /\ LET node  == code.tree[node_idx]
           loops == LeaveLoops(loop_stack, node.depth)
           fns   == LeaveFunctions(fn_stack, node.depth)
           hot   == Restored(fn_stack, node.depth, "old_hot_path", in_hot_path)
           fname == Restored(fn_stack, node.depth, "old_function", current_function)
       IN  /\ loop_stack' = IF node.kind \in LoopKinds
                            THEN Append(loops, node_idx) ELSE loops
           /\ fn_stack' = IF node.kind \in FunctionKinds
                          THEN Append(fns, [depth |-> node.depth,
                                            old_function |-> fname,
                                            old_hot_path |-> hot])
                          ELSE fns
           /\ in_hot_path' = IF node.kind \in FunctionKinds
                             THEN visit_FunctionDef_hot(node.name) ELSE hot
           /\ current_function' = IF node.kind \in FunctionKinds
                                  THEN Some(node.name) ELSE fname
           /\ findings' = IF node.kind = "Call"
                          THEN findings \o visit_Call(node, node_idx, loops, hot)
                          ELSE findings
    /\ node_idx' = node_idx + 1
    /\ pc' = IF RaisesAt(code, node_idx) THEN "except" ELSE pc
    /\ UNCHANGED <<input_vars, language, content_scored, lex_vars,
                   out_findings, result>>

\* the traversal returns to the module: every open construct is left
PyVisitEnd ==
    /\ pc = "py_visit"
    /\ node_idx = Len(code.tree) + 1
    /\ loop_stack' = LeaveLoops(loop_stack, 0)
    /\ fn_stack' = LeaveFunctions(fn_stack, 0)
    /\ in_hot_path' = Restored(fn_stack, 0, "old_hot_path", in_hot_path)
    /\ current_function' = Restored(fn_stack, 0, "old_function", current_function)
    /\ pc' = "py_convert"
    /\ UNCHANGED <<input_vars, language, content_scored, node_idx, lex_vars,
                   findings, out_findings, result>>

PyConvert ==
    /\ pc = "py_convert"
    /\ out_findings' = [k \in 1..Len(findings) |-> PyToFinding(file_path, findings[k])]
    /\ pc' = "return"
    /\ UNCHANGED <<input_vars, language, content_scored, py_vars, lex_vars,
                   findings, result>>

\* JavaScriptScanner.scan, first pass: one line, or the end of the pass
JsFirstPass ==
    /\ pc = "js_first_pass"
    /\ IF line_idx < Len(code.lines)
       THEN LET st == JsFirstPassLine(code.lines[line_idx + 1], brace_stack, loop_depth)
            IN  /\ brace_stack' = st.stack
                /\ loop_depth' = st.depth
                /\ in_loop_lines' = IF st.marked THEN in_loop_lines \cup {line_idx}
                                    ELSE in_loop_lines
                /\ line_idx' = line_idx + 1
                /\ pc' = pc
       ELSE /\ line_idx' = 0
            /\ pc' = "js_second_pass"
            /\ UNCHANGED <<brace_stack, loop_depth, in_loop_lines>>
    /\ UNCHANGED <<input_vars, language, content_scored, py_vars, brace_depth,
                   loop_start_depths, findings, out_findings, result>>

\* JavaScriptScanner.scan, second pass: one line, or the end of the pass
JsSecondPass ==
    /\ pc = "js_second_pass"
    /\ IF line_idx < Len(code.lines)
       THEN /\ findings' = findings \o
                   JsSecondPassLine(code.lines, line_idx, line_idx \in in_loop_lines)
            /\ line_idx' = line_idx + 1
            /\ pc' = pc
       ELSE /\ pc' = "js_convert"
            /\ UNCHANGED <<findings, line_idx>>
    /\ UNCHANGED <<input_vars, language, content_scored, py_vars, loop_depth,
                   brace_depth, brace_stack, loop_start_depths, in_loop_lines,
                   out_findings, result>>

JsConvert ==
    /\ pc = "js_convert"
    /\ out_findings' = [k \in 1..Len(findings) |->
                           LexToFinding(JS_COST_CATEGORY_MAP, file_path, findings[k])]
    /\ pc' = "return"
    /\ UNCHANGED <<input_vars, language, content_scored, py_vars, lex_vars,
                   findings, result>>

\* JavaScanner._find_loops: one line, or the return of the set
JavaFindLoops ==
    /\ pc = "java_find_loops"
    /\ IF line_idx < Len(code.lines)
       THEN LET st == JavaFindLoopsLine(code.lines[line_idx + 1], loop_start_depths,
                                        brace_depth, loop_depth)
            IN  /\ loop_start_depths' = st.floors
                /\ brace_depth' = st.braces
                /\ loop_depth' = st.loops
                /\ in_loop_lines' = IF st.loops > 0 THEN in_loop_lines \cup {line_idx}
                                    ELSE in_loop_lines
                /\ line_idx' = line_idx + 1
                /\ pc' = pc
       ELSE /\ line_idx' = 0
            /\ pc' = "java_scan"
            /\ UNCHANGED <<loop_start_depths, brace_depth, loop_depth, in_loop_lines>>
    /\ UNCHANGED <<input_vars, language, content_scored, py_vars, brace_stack,
                   findings, out_findings, result>>

\* JavaScanner.scan, the loop over the lines: one line, or its end
JavaScan ==
    /\ pc = "java_scan"
    /\ IF line_idx < Len(code.lines)
       THEN /\ findings' = findings \o
                   JavaScanLine(code.lines, line_idx, line_idx \in in_loop_lines)
            /\ line_idx' = line_idx + 1
            /\ pc' = pc
       ELSE /\ pc' = "java_convert"
            /\ UNCHANGED <<findings, line_idx>>
    /\ UNCHANGED <<input_vars, language, content_scored, py_vars, loop_depth,
                   brace_depth, brace_stack, loop_start_depths, in_loop_lines,
                   out_findings, result>>

JavaConvert ==
    /\ pc = "java_convert"
    /\ out_findings' = [k \in 1..Len(findings) |->
                           LexToFinding(JAVA_COST_CATEGORY_MAP, file_path, findings[k])]
    /\ pc' = "return"
    /\ UNCHANGED <<input_vars, language, content_scored, py_vars, lex_vars,
                   findings, result>>

\* scan_code: scanner.scan has returned its findings
ScanReturn ==
    /\ pc = "return"
    /\ result' = Some(ScanResult(file_path, language[1], out_findings, Nothing))
    /\ pc' = "done"
    /\ UNCHANGED <<input_vars, language, content_scored, py_vars, lex_vars,
                   findings, out_findings>>

\* mutation: the findings collected before the fault are returned with the error
ScanExcept_partial ==
    /\ pc = "except"
    /\ result' = Some(ScanResult(file_path, language[1],
                                 [k \in 1..Len(findings) |->
                                     PyToFinding(file_path, findings[k])],
                                 Some(code.fault[1].message)))
    /\ pc' = "done"
    /\ UNCHANGED <<input_vars, language, content_scored, py_vars, lex_vars,
                   findings, out_findings>>

\* scan_code: scanner.scan has raised; the exception is caught and its
\* message reported
ScanExcept ==
    /\ pc = "except"
    /\ result' = Some(ScanResult(file_path, language[1], <<>>,
                                 Some(code.fault[1].message)))
    /\ pc' = "done"
    /\ UNCHANGED <<input_vars, language, content_scored, py_vars, lex_vars,
                   findings, out_findings>>

Next ==
    \/ ResolveLanguage
    \/ PyParse
    \/ PyVisit
    \/ PyVisitEnd
    \/ PyConvert
    \/ JsFirstPass
    \/ JsSecondPass
    \/ JsConvert
    \/ JavaFindLoops
    \/ JavaScan
    \/ JavaConvert
    \/ ScanReturn
    \/ ScanExcept

Spec == Init /\ [][Next]_vars

-----------------------------------------------------------------------------
(* ScannerDispatch.scan_directory: scan_file on every supported file *)

MaxFiles == 2       \* entries of the scanned directory

DEFAULT_EXCLUDE_PATTERNS == <<"node_modules", ".git", "__pycache__", "venv", ".venv">>

\* the path holds one of the exclusion patterns
Excluded(path) ==
    \E k \in 1..Len(DEFAULT_EXCLUDE_PATTERNS) :
        IsSubstring(DEFAULT_EXCLUDE_PATTERNS[k], path)

\* an entry the traversal yields: is_file is what Path.is_file answers,
\* vanished says that the file is gone when scan_file looks for it,
\* read_error is Nothing or Some of the message of the exception read_text
\* raises, content is what read_text returns
DirEntry(path, is_file, vanished, read_error, content) ==
    [path |-> path, is_file |-> is_file, vanished |-> vanished,
     read_error |-> read_error, content |-> content]

\* scan_file up to its call of scan_code: Some(the ScanResult it returns
\* early), or Nothing when it goes on to scan_code
scan_file_early(e) ==
    IF e.vanished
    THEN Some(ScanResult(e.path, "unknown", <<>>, Some("File not found: " \o e.path)))
    ELSE IF ~e.is_file
    THEN Some(ScanResult(e.path, "unknown", <<>>, Some("Not a file: " \o e.path)))
    ELSE IF e.read_error # Nothing
    THEN Some(ScanResult(e.path, "unknown", <<>>,
                         Some("Could not read file: " \o e.read_error[1])))
    ELSE Nothing

NoCode == Code(<<>>, TRUE, <<>>, EmptyBag, TRUE)

PyFile(tree, parse_ok) == Code(tree, parse_ok, <<>>, EmptyBag, tree = <<>>)
LexFile(lines) == Code(<<>>, FALSE, lines, EmptyBag, lines = <<>>)

LoopWithDbRead ==
    <<PyNode("For", ""), [PyMethodCall("db", "get", "other", "") EXCEPT !.depth = 1]>>

DirEntries ==
    {DirEntry("a.py", TRUE, FALSE, Nothing, PyFile(LoopWithDbRead, TRUE)),
     DirEntry("deep.py", TRUE, FALSE, Nothing,
              Faulty(PyFile(LoopWithDbRead, TRUE), 2, "maximum recursion depth exceeded")),
     DirEntry("broken.py", TRUE, FALSE, Nothing, PyFile(<<>>, FALSE)),
     DirEntry("b.js", TRUE, FALSE, Nothing,
              LexFile(<<ForLine, <<"JSON.stringify(">>, <<"}">> >>)),
     DirEntry("src/App.java", TRUE, FALSE, Nothing,
              LexFile(<<ForLine, <<"repository.findById(">>, <<"}">> >>)),
     DirEntry("latin1.py", TRUE, FALSE,
              Some("'utf-8' codec can't decode byte 0xe9"), NoCode),
     DirEntry("gone.py", TRUE, TRUE, Nothing, NoCode),
     DirEntry("notes.txt", TRUE, FALSE, Nothing, NoCode),
     DirEntry("pkg.py", FALSE, FALSE, Nothing, NoCode),
     DirEntry("node_modules/x.js", TRUE, FALSE, Nothing,
              LexFile(<<ForLine, <<"fetch(">>, <<"}">> >>))}

\* the directories: a missing one, and those whose traversal yields at most
\* MaxFiles entries, no entry twice
Directories ==
    {[exists |-> FALSE, files |-> <<>>]} \cup
    {[exists |-> TRUE, files |-> fs] :
        fs \in {s \in UNION {[1..k -> DirEntries] : k \in 0..MaxFiles} :
                   \A i, j \in 1..Len(s) : i # j => s[i] # s[j]}}

DirInit ==
    /\ directory \in Directories
    /\ dir_idx = 1
    /\ results = <<>>
    /\ pc = "dir_start"
    /\ code = NoCode
    /\ language_arg = LangNone
    /\ file_path = ""
    /\ language = Nothing
    /\ content_scored = FALSE
    /\ node_idx = 1
    /\ loop_stack = <<>>
    /\ fn_stack = <<>>
    /\ in_hot_path = FALSE
    /\ current_function = Nothing
    /\ line_idx = 0
    /\ loop_depth = 0
    /\ brace_depth = 0
    /\ brace_stack = <<>>
    /\ loop_start_depths = <<>>
    /\ in_loop_lines = {}
    /\ findings = <<>>
    /\ out_findings = <<>>
    /\ result = Nothing
    /\ estimates = <<>>
    /\ cost_ret = Nothing

scan_vars == <<code, language_arg, file_path, language, content_scored,
               py_vars, lex_vars, findings, out_findings, result>>

\* scan_directory: a missing directory returns the empty list
DirEnter ==
    /\ pc = "dir_start"
    /\ pc' = IF directory.exists THEN "dir_loop" ELSE "dir_done"
    /\ UNCHANGED <<scan_vars, dir_vars, cost_vars>>

\* scan_directory, the loop over the files: the entry is skipped, or
\* scan_file returns early and its result is appended, or scan_file calls
\* scan_code with the text it read and the language of the extension
DirLoop ==
    /\ pc = "dir_loop"
    /\ dir_idx <= Len(directory.files)
    /\ LET e == directory.files[dir_idx] IN
       IF ~e.is_file \/ Excluded(e.path) \/ ~ExtensionMapped(e.path)
       THEN /\ dir_idx' = dir_idx + 1
            /\ UNCHANGED <<scan_vars, directory, results, pc, cost_vars>>
       ELSE IF scan_file_early(e) # Nothing
       THEN /\ results' = Append(results, scan_file_early(e)[1])
            /\ dir_idx' = dir_idx + 1
            /\ UNCHANGED <<scan_vars, directory, pc, cost_vars>>
       ELSE /\ code' = e.content
            /\ language_arg' = LangEnum(detect_language(e.path, NoCode))
            /\ file_path' = e.path
            /\ language' = Nothing
            /\ content_scored' = FALSE
            /\ node_idx' = 1
            /\ loop_stack' = <<>>
            /\ fn_stack' = <<>>
            /\ in_hot_path' = FALSE
            /\ current_function' = Nothing
            /\ line_idx' = 0
            /\ loop_depth' = 0
            /\ brace_depth' = 0
            /\ brace_stack' = <<>>
            /\ loop_start_depths' = <<>>
            /\ in_loop_lines' = {}
            /\ findings' = <<>>
            /\ out_findings' = <<>>
            /\ result' = Nothing
            /\ pc' = "start"
            /\ UNCHANGED <<dir_vars, cost_vars>>

\* mutation: a result with an error ends the batch
DirCollect_stops_on_error ==
    /\ pc = "done"
    /\ directory # Nothing
    /\ results' = Append(results, result[1])
    /\ dir_idx' = dir_idx + 1
    /\ pc' = IF result[1].error # Nothing THEN "dir_done" ELSE "dir_loop"
    /\ UNCHANGED <<scan_vars, directory, cost_vars>>

\* scan_directory: scan_file has returned scan_code's result
DirCollect ==
    /\ pc = "done"
    /\ directory # Nothing
    /\ results' = Append(results, result[1])
    /\ dir_idx' = dir_idx + 1
    /\ pc' = "dir_loop"
    /\ UNCHANGED <<scan_vars, directory, cost_vars>>

\* scan_directory: the loop is over, results is returned
DirReturn ==
    /\ pc = "dir_loop"
    /\ dir_idx = Len(directory.files) + 1
    /\ pc' = "dir_done"
    /\ UNCHANGED <<scan_vars, dir_vars, cost_vars>>

DirNext ==
    \/ DirEnter
    \/ DirLoop
    \/ DirCollect
    \/ DirReturn
    \/ ResolveLanguage
    \/ PyParse
    \/ PyVisit
    \/ PyVisitEnd
    \/ PyConvert
    \/ JsFirstPass
    \/ JsSecondPass
    \/ JsConvert
    \/ JavaFindLoops
    \/ JavaScan
    \/ JavaConvert
    \/ ScanReturn
    \/ ScanExcept

DirSpec == DirInit /\ [][DirNext]_vars

-----------------------------------------------------------------------------
(* A caller of the cost estimator (finlinter/cost/estimator.py): it asks    *)
(* for severities and estimates, keeps the estimates and summarises them    *)

\* iteration counts a caller supplies
IterationCounts == {0, 1, 100, 1000}
IterationArgs == {Nothing} \cup {Some(n) : n \in IterationCounts}

\* monthly costs around the two thresholds, in 1/Scale rupee
MonthlyCosts ==
    {0, MediumThreshold * Scale - 1, MediumThreshold * Scale,
     MediumThreshold * Scale + 1, 30 * Scale, HighThreshold * Scale - 1,
     HighThreshold * Scale, HighThreshold * Scale + 1, 300 * Scale}

CostInit ==
    /\ pc = "cost"
    /\ estimates = <<>>
    /\ cost_ret = Nothing
    /\ directory = Nothing
    /\ dir_idx = 0
    /\ results = <<>>
    /\ code = NoCode
    /\ language_arg = LangNone
    /\ file_path = ""
    /\ language = Nothing
    /\ content_scored = FALSE
    /\ node_idx = 1
    /\ loop_stack = <<>>
    /\ fn_stack = <<>>
    /\ in_hot_path = FALSE
    /\ current_function = Nothing
    /\ line_idx = 0
    /\ loop_depth = 0
    /\ brace_depth = 0
    /\ brace_stack = <<>>
    /\ loop_start_depths = <<>>
    /\ in_loop_lines = {}
    /\ findings = <<>>
    /\ out_findings = <<>>
    /\ result = Nothing

\* a call of CostEstimator._calculate_severity
CalculateSeverity ==
    /\ pc = "cost"
    /\ \E m \in MonthlyCosts :
          cost_ret' = Some([op |-> "_calculate_severity", monthly_cost |-> m,
                            ret |-> _calculate_severity(m)])
    /\ UNCHANGED <<scan_vars, dir_vars, pc, estimates>>

\* a call of CostEstimator.estimate; the caller keeps the estimate
Estimate ==
    /\ pc = "cost"
    /\ Len(estimates) < MaxEstimates
    /\ \E category \in CostCategory, iterations \in IterationArgs :
          LET e == estimate(category, iterations)
          IN  /\ estimates' = Append(estimates, e)
              /\ cost_ret' = Some([op |-> "estimate", category |-> category,
                                    iterations |-> iterations, ret |-> e])
    /\ UNCHANGED <<scan_vars, dir_vars, pc>>

\* a call of the module-level quick_estimate
QuickEstimate ==
    /\ pc = "cost"
    /\ \E category \in CostCategory, iterations \in IterationArgs :
          cost_ret' = Some([op |-> "quick_estimate", category |-> category,
                            iterations |-> iterations,
                            ret |-> quick_estimate(category, iterations)])
    /\ UNCHANGED <<scan_vars, dir_vars, pc, estimates>>

\* a call of CostEstimator.get_summary with the estimates kept so far
GetSummary ==
    /\ pc = "cost"
    /\ cost_ret' = Some([op |-> "get_summary", ret |-> get_summary(estimates)])
    /\ UNCHANGED <<scan_vars, dir_vars, pc, estimates>>

CostNext ==
    \/ CalculateSeverity
    \/ Estimate
    \/ QuickEstimate
    \/ GetSummary

CostSpec == CostInit /\ [][CostNext]_vars

-----------------------------------------------------------------------------
(* Vocabulary of the properties *)

\* the findings of the ScanResult, once scan_code has returned
Reported == IF result = Nothing THEN <<>> ELSE result[1].findings

\* scan_code has returned the findings of the scanner of the given language
Scanned(lang) ==
    /\ pc = "done"
    /\ result # Nothing
    /\ result[1].language = lang
    /\ result[1].error = Nothing
    /\ lang = "python" => code.parse_ok

ReportedAt(line_number) ==
    {k \in 1..Len(Reported) : Reported[k].line_number = line_number}

\* the nodes of the tree that enclose node k
PyAncestors(k) ==
    {j \in 1..(k - 1) :
        \A m \in (j + 1)..k : code.tree[m].depth > code.tree[j].depth}

PyLoopConstructs ==
    {"For", "While", "ListComp", "DictComp", "SetComp", "GeneratorExp"}

PyEnclosedByLoop(k) ==
    \E j \in PyAncestors(k) : code.tree[j].kind \in PyLoopConstructs

LoopDependentRules ==
    {"PY001", "PY002", "PY003", "JS001", "JS002", "JS003", "JS004",
     "JAVA001", "JAVA002", "JAVA003", "JAVA004", "JAVA005"}

\* the severity each rule passes for its findings
RuleBaseSeverity(rule_id) ==
    IF rule_id \in {"PY003", "PY004", "JS003", "JS004", "JAVA003"}
    THEN "medium" ELSE "high"

SeverityRank(sev) ==
    CASE sev = "low" -> 1 [] sev = "medium" -> 2 [] sev = "high" -> 3
      [] sev = "critical" -> 4

\* the call node matches a rule of the table
PyCallMatches(table, node) ==
    /\ node.kind = "Call"
    /\ _extract_call_pattern(node) # Nothing
    /\ \E r \in 1..Len(table) :
          _matches_pattern(_extract_call_pattern(node)[1][1],
                           _extract_call_pattern(node)[1][2],
                           table[r][1], table[r][2])

LineMatches(table, line) == \E r \in 1..Len(table) : Search(table[r][1], line)

-----------------------------------------------------------------------------
(* C1 *)

PySourceHasLoop ==
    \E k \in 1..Len(code.tree) : code.tree[k].kind \in PyLoopConstructs

LexSourceHasLoop(loop_patterns) ==
    \E k \in 1..Len(code.lines) :
        \E r \in 1..Len(loop_patterns) : Search(loop_patterns[r], code.lines[k])

SourceHasLoop ==
    CASE language = Some("python")     -> PySourceHasLoop
      [] language = Some("javascript") -> LexSourceHasLoop(JS_LOOP_PATTERNS)
      [] language = Some("java")       -> LexSourceHasLoop(JAVA_LOOP_PATTERNS)
      [] OTHER -> FALSE

\* C1: a source without any loop construct never yields a loop-dependent
\* finding (PY001-PY003, JS001-JS004, JAVA001-JAVA005), in any of the three
\* scanners and whatever calls it contains; neither the scanner's internal
\* list nor the returned list holds one.
C1_NoLoopNoLoopFinding ==
    ~SourceHasLoop =>
        /\ \A k \in 1..Len(findings) : findings[k].rule_id \notin LoopDependentRules
        /\ \A k \in 1..Len(out_findings) :
              out_findings[k].rule_id \notin LoopDependentRules
        /\ \A k \in 1..Len(Reported) : Reported[k].rule_id \notin LoopDependentRules

\* a loop-free Python source with a database call has been scanned and only
\* the unbounded-query finding is reported
C1_Witness ==
    /\ Scanned("python")
    /\ ~SourceHasLoop
    /\ \E k \in 1..Len(code.tree) : PyCallMatches(PY_DB_PATTERNS, code.tree[k])
    /\ Len(Reported) = 1
    /\ Reported[1].rule_id = "PY004"

-----------------------------------------------------------------------------
(* C2 *)

\* C2: every Finding the scanners return carries a cost estimate, computed
\* for 100 iterations: per execution 0.002 x 100 (database_read), 0.004 x 100
\* (database_write), 0.01 x 100 (api_call), 0.0001 x 100 (serialization), and
\* 30 times that per month.
C2_CostEstimatePresent ==
    \A k \in 1..Len(out_findings) :
        LET f == out_findings[k] IN
        /\ f.estimated_cost # Nothing
        /\ f.estimated_cost[1].category = f.category
        /\ f.estimated_cost[1].iterations = 100
        /\ f.estimated_cost[1].unit_cost =
              (CASE f.category = "database_read"  -> 20
                 [] f.category = "database_write" -> 40
                 [] f.category = "api_call"       -> 100
                 [] f.category = "serialization"  -> 1)
        /\ f.estimated_cost[1].per_execution_cost = f.estimated_cost[1].unit_cost * 100
        /\ f.estimated_cost[1].monthly_cost = f.estimated_cost[1].unit_cost * 100 * 30

\* a scan has returned a serialization finding and a database finding
C2_Witness ==
    /\ pc = "done"
    /\ \E k \in 1..Len(Reported) :
          /\ Reported[k].category = "serialization"
          /\ Reported[k].estimated_cost # Nothing
          /\ Reported[k].estimated_cost[1].per_execution_cost = 100
    /\ \E k \in 1..Len(Reported) :
          /\ Reported[k].category = "database_read"
          /\ Reported[k].estimated_cost[1].monthly_cost = 60000

-----------------------------------------------------------------------------
(* C3 *)

QueryShaped(node) == PyCallMatches(UNBOUNDED_QUERY_PATTERNS, node)

HasPaginationKeyword(text) ==
    \E kw \in {"limit", "offset", "top", "fetch", "first", "take", "page",
               "paginate", "pagination", "slice", "[:"} :
        IsSubstring(kw, Lower(text))

UnboundedAt(k) ==
    {j \in ReportedAt(k) : Reported[j].rule_id = "PY004"}

\* C3 as stated: a query-shaped call yields exactly one PY004 finding iff its
\* first argument is a string literal or an f-string whose static text holds
\* no pagination keyword, and none otherwise.  (An f-string without any
\* static text is left open: it may count as dynamically constructed.)
C3_Original ==
    Scanned("python") =>
        \A k \in 1..Len(code.tree) :
            LET node == code.tree[k] IN
            QueryShaped(node) =>
                IF node.argkind \in {"str", "fstring"}
                THEN \/ node.argkind = "fstring" /\ node.argtext = ""
                     \/ Cardinality(UnboundedAt(k)) =
                           (IF HasPaginationKeyword(node.argtext) THEN 0 ELSE 1)
                ELSE UnboundedAt(k) = {}

\* C3 amended: exactly one PY004 finding iff the first argument is a string
\* literal or an f-string whose static text is non-empty and holds no
\* pagination keyword; none when the static text is empty or holds a
\* pagination keyword, or the argument is missing or not a string.
C3_UnboundedQuery ==
    Scanned("python") =>
        \A k \in 1..Len(code.tree) :
            LET node == code.tree[k] IN
            QueryShaped(node) =>
                Cardinality(UnboundedAt(k)) =
                    (IF /\ node.argkind \in {"str", "fstring"}
                        /\ node.argtext # ""
                        /\ ~HasPaginationKeyword(node.argtext)
                     THEN 1 ELSE 0)

\* an unbounded f-string query outside any loop has been reported
C3_Witness ==
    /\ Scanned("python")
    /\ \E k \in 1..Len(code.tree) :
          /\ QueryShaped(code.tree[k])
          /\ code.tree[k].argkind = "fstring"
          /\ ~PyEnclosedByLoop(k)
          /\ Cardinality(UnboundedAt(k)) = 1

-----------------------------------------------------------------------------
(* C4 *)

PyEnclosingFunctions(k) ==
    {j \in PyAncestors(k) : code.tree[j].kind \in {"FunctionDef", "AsyncFunctionDef"}}

IsHotName(name) ==
    \E kw \in {"handle", "handler", "process", "controller", "endpoint",
               "route", "view", "api", "webhook", "lambda_handler",
               "main", "run", "execute", "dispatch", "serve"} :
        IsSubstring(kw, Lower(name))

\* the function that directly encloses node k is a hot-path function
PyInHotFunction(k) ==
    /\ PyEnclosingFunctions(k) # {}
    /\ LET j == CHOOSE i \in PyEnclosingFunctions(k) :
                    \A h \in PyEnclosingFunctions(k) : h <= i
       IN  IsHotName(code.tree[j].name)

PyInAnyHotFunction(k) ==
    \E j \in PyEnclosingFunctions(k) : IsHotName(code.tree[j].name)

\* C4: Python severity escalation is monotonic.  A medium-base finding whose
\* (directly) enclosing function has a hot-path name is reported high; a
\* high-base finding is reported high; a finding enclosed by no hot-path
\* function keeps its base severity; no finding is reported below its base.
C4_MonotonicEscalation ==
    Scanned("python") =>
        \A k \in 1..Len(Reported) :
            LET f    == Reported[k]
                base == RuleBaseSeverity(f.rule_id)
            IN  /\ (base = "medium" /\ PyInHotFunction(f.line_number))
                       => f.severity = "high"
                /\ base = "high" => f.severity = "high"
                /\ ~PyInAnyHotFunction(f.line_number) => f.severity = base
                /\ SeverityRank(f.severity) >= SeverityRank(base)

\* a serialization finding (base medium) in a loop of a hot-path function has
\* been reported high
C4_Witness ==
    /\ Scanned("python")
    /\ \E k \in 1..Len(Reported) :
          /\ Reported[k].rule_id = "PY003"
          /\ PyInHotFunction(Reported[k].line_number)
          /\ Reported[k].severity = "high"

-----------------------------------------------------------------------------
(* C5 *)

LexHotWindow(i, window, hot_patterns) ==
    \E k \in 1..Len(code.lines) :
        /\ k <= i
        /\ k > i - window
        /\ \E r \in 1..Len(hot_patterns) : Search(hot_patterns[r], code.lines[k])

\* C5: in the JavaScript and Java scanners a medium-base finding (JS003,
\* JS004, JAVA003) whose call site has a hot-path marker in the 20 (Java: 30)
\* preceding lines is reported high.  The scanners do not do this.
C5_LexicalEscalation ==
    /\ Scanned("javascript") =>
          \A k \in 1..Len(Reported) :
              (/\ Reported[k].rule_id \in {"JS003", "JS004"}
               /\ LexHotWindow(Reported[k].line_number - 1, 20, JS_HOT_PATH_PATTERNS))
                  => Reported[k].severity = "high"
    /\ Scanned("java") =>
          \A k \in 1..Len(Reported) :
              (/\ Reported[k].rule_id = "JAVA003"
               /\ LexHotWindow(Reported[k].line_number - 1, 30, JAVA_HOT_PATH_PATTERNS))
                  => Reported[k].severity = "high"

-----------------------------------------------------------------------------
(* C6 *)

\* C6: an outbound-call finding of a rule with base severity high (PY002,
\* JS001, JAVA002, JAVA005) is reported with severity high while its cost
\* estimate, 0.01 x 100 x 30 = 30 a month, has severity medium.
C6_SeveritiesDiffer ==
    \A k \in 1..Len(out_findings) :
        LET f == out_findings[k] IN
        (f.category = "api_call" /\ RuleBaseSeverity(f.rule_id) = "high") =>
            /\ f.severity = "high"
            /\ f.estimated_cost # Nothing
            /\ f.estimated_cost[1].monthly_cost = 30 * Scale
            /\ f.estimated_cost[1].severity = "medium"

\* an API call in a loop has been reported by the Python scanner, and the
\* scan has returned
C6_Witness ==
    /\ Scanned("python")
    /\ \E k \in 1..Len(Reported) :
          /\ Reported[k].rule_id = "PY002"
          /\ Reported[k].severity = "high"
          /\ Reported[k].estimated_cost[1].severity = "medium"

-----------------------------------------------------------------------------
(* C7 *)

\* the language the extension map gives for a lower-cased extension
LanguageOfExtension(ext) ==
    CASE ext \in {".py", ".pyw"} -> "python"
      [] ext \in {".js", ".mjs", ".cjs", ".jsx", ".ts", ".tsx"} -> "javascript"
      [] ext = ".java" -> "java"
      [] OTHER -> "none"

\* C7: when the language is detected and the path's extension, compared
\* case-insensitively, is in the extension map, the mapped language is the
\* result whatever the content, and the content is not scored; the content
\* is scored only when the path is absent or its extension is unmapped.
C7_ExtensionWins ==
    (language # Nothing /\ NeedsDetection(language_arg)) =>
        LET lang == LanguageOfExtension(Lower(Suffix(file_path)))
        IN  /\ lang # "none" => (language[1] = lang /\ ~content_scored)
            /\ content_scored => (file_path = "" \/ lang = "none")

\* the extension .PY has decided for Python on a content that scores for
\* JavaScript only
C7_Witness ==
    /\ language = Some("python")
    /\ NeedsDetection(language_arg)
    /\ file_path = "A.PY"
    /\ Score(js_indicators, code.words) > 0
    /\ Score(python_indicators, code.words) = 0

-----------------------------------------------------------------------------
(* C8 *)

NoIndicator ==
    \/ code.text_empty
    \/ /\ \A k \in 1..Len(python_indicators) : ~Occurs(python_indicators[k], code.words)
       /\ \A k \in 1..Len(js_indicators) : ~Occurs(js_indicators[k], code.words)
       /\ \A k \in 1..Len(java_indicators) : ~Occurs(java_indicators[k], code.words)

NoUsableHint ==
    \/ language_arg.type = "None"
    \/ language_arg.type = "Language" /\ language_arg.value = "unknown"
    \/ language_arg.type = "str"
       /\ Lower(language_arg.value) \notin {"python", "javascript", "java"}

\* C8: with no usable language hint, an unmapped extension and a content
\* without any indicator keyword (or empty), scan_code runs no scanner and
\* returns a ScanResult with language Unknown, an error and no findings.
C8_UnknownLanguage ==
    (/\ NoUsableHint
     /\ LanguageOfExtension(Lower(Suffix(file_path))) = "none"
     /\ NoIndicator) =>
        /\ pc \in {"start", "done"}
        /\ findings = <<>> /\ out_findings = <<>>
        /\ node_idx = 1 /\ line_idx = 0
        /\ pc = "done" =>
              /\ result # Nothing
              /\ result[1].language = "unknown"
              /\ result[1].error # Nothing
              /\ result[1].findings = <<>>

\* scan_code has returned for an unrecognised hint, a .txt path and a
\* non-empty content without indicators
C8_Witness ==
    /\ pc = "done"
    /\ language_arg = LangStr("cobol")
    /\ file_path = "notes.txt"
    /\ ~code.text_empty
    /\ NoIndicator
    /\ result # Nothing
    /\ result[1].error # Nothing

-----------------------------------------------------------------------------
(* C9 *)

\* a Python call that is a database read and nothing else: it matches the
\* database table, not the API or serialization table, and is not a
\* query-shaped call with a string argument
PyPlainDbRead(node) ==
    /\ PyCallMatches(PY_DB_PATTERNS, node)
    /\ ~PyCallMatches(PY_API_PATTERNS, node)
    /\ ~PyCallMatches(PY_SERIALIZATION_PATTERNS, node)
    /\ ~(QueryShaped(node) /\ node.argkind \in {"str", "fstring"})

PyPlainSerialization(node) ==
    /\ PyCallMatches(PY_SERIALIZATION_PATTERNS, node)
    /\ ~PyCallMatches(PY_DB_PATTERNS, node)
    /\ ~PyCallMatches(PY_API_PATTERNS, node)
    /\ ~QueryShaped(node)

JsPlainDbRead(line) ==
    /\ LineMatches(JS_DB_PATTERNS, line)
    /\ ~LineMatches(JS_API_CALL_PATTERNS, line)
    /\ ~LineMatches(JS_PROMISE_PATTERNS, line)
    /\ ~LineMatches(JS_SERIALIZATION_PATTERNS, line)

JsPlainSerialization(line) ==
    /\ LineMatches(JS_SERIALIZATION_PATTERNS, line)
    /\ ~LineMatches(JS_API_CALL_PATTERNS, line)
    /\ ~LineMatches(JS_PROMISE_PATTERNS, line)
    /\ ~LineMatches(JS_DB_PATTERNS, line)

JavaPlainDbRead(line) ==
    /\ LineMatches(SPRING_DATA_PATTERNS, line)
    /\ ~LineMatches(REST_TEMPLATE_PATTERNS, line)
    /\ ~LineMatches(OBJECT_MAPPER_PATTERNS, line)
    /\ ~LineMatches(JDBC_PATTERNS, line)
    /\ ~LineMatches(AWS_PATTERNS, line)

JavaPlainSerialization(line) ==
    /\ LineMatches(OBJECT_MAPPER_PATTERNS, line)
    /\ ~LineMatches(SPRING_DATA_PATTERNS, line)
    /\ ~LineMatches(REST_TEMPLATE_PATTERNS, line)
    /\ ~LineMatches(JDBC_PATTERNS, line)
    /\ ~LineMatches(AWS_PATTERNS, line)

\* the source is one for loop whose body is one database-read call and one
\* serialization call, in either order
PyOneLoopTwoCalls ==
    /\ Len(code.tree) = 3
    /\ code.tree[1].kind = "For"
    /\ code.tree[2].depth = 1 /\ code.tree[3].depth = 1
    /\ \/ PyPlainDbRead(code.tree[2]) /\ PyPlainSerialization(code.tree[3])
       \/ PyPlainSerialization(code.tree[2]) /\ PyPlainDbRead(code.tree[3])

JsOneLoopTwoCalls ==
    /\ Len(code.lines) = 4
    /\ code.lines[1] = ForLine
    /\ code.lines[4] = <<"}">>
    /\ \/ JsPlainDbRead(code.lines[2]) /\ JsPlainSerialization(code.lines[3])
       \/ JsPlainSerialization(code.lines[2]) /\ JsPlainDbRead(code.lines[3])

JavaOneLoopTwoCalls ==
    /\ Len(code.lines) = 4
    /\ code.lines[1] = ForLine
    /\ code.lines[4] = <<"}">>
    /\ \/ JavaPlainDbRead(code.lines[2]) /\ JavaPlainSerialization(code.lines[3])
       \/ JavaPlainSerialization(code.lines[2]) /\ JavaPlainDbRead(code.lines[3])

TwoFindingsWithCost ==
    /\ Len(Reported) = 2
    /\ {Reported[1].category, Reported[2].category} = {"database_read", "serialization"}
    /\ \A k \in 1..2 :
          /\ Reported[k].estimated_cost # Nothing
          /\ Reported[k].estimated_cost[1].per_execution_cost =
                Reported[k].estimated_cost[1].unit_cost * 100

\* C9: in each scanner, one loop whose body holds exactly one database-read
\* call and exactly one serialization call yields exactly two findings, one
\* database_read and one serialization, each with a cost estimate of
\* unit cost x 100 per execution.  The JavaScript scanner breaks this when
\* the database call's line holds a closing brace.
C9_OneLoopTwoCalls ==
    /\ (Scanned("python") /\ PyOneLoopTwoCalls) => TwoFindingsWithCost
    /\ (Scanned("javascript") /\ JsOneLoopTwoCalls) => TwoFindingsWithCost
    /\ (Scanned("java") /\ JavaOneLoopTwoCalls) => TwoFindingsWithCost

-----------------------------------------------------------------------------
(* C10 *)

\* the lexical source has exactly one loop statement: line s (1-based) is the
\* only line with a loop-start pattern, it opens the loop's brace, and
\* line e holds the brace that closes it
RECURSIVE Balance(_, _, _)
Balance(lines, from, to) ==
    IF to < from THEN 0
    ELSE Balance(lines, from, to - 1) + Count(lines[to], "{") - Count(lines[to], "}")

LexOneLoop(loop_patterns, s, e) ==
    /\ s \in 1..Len(code.lines) /\ e \in 1..Len(code.lines) /\ s < e
    /\ code.lines[s] = ForLine
    /\ \A k \in 1..Len(code.lines) :
          (\E r \in 1..Len(loop_patterns) : Search(loop_patterns[r], code.lines[k]))
              => k = s
    /\ Balance(code.lines, s, e) = 0
    /\ \A m \in s..(e - 1) : Balance(code.lines, s, m) > 0
    /\ Balance(code.lines, 1, s - 1) >= 0
    /\ \A m \in 1..(s - 1) : Balance(code.lines, 1, m) >= 0

\* no loop-dependent finding is reported for the lines outside s..e that
\* hold a database-read or serialization call
LexNoneOutside(s, e, IsDb(_), IsSer(_)) ==
    \A k \in 1..Len(code.lines) :
        ((k < s \/ k > e) /\ (IsDb(code.lines[k]) \/ IsSer(code.lines[k])))
            => ReportedAt(k) = {}

\* C10: a database-read call or a serialization call placed outside the
\* loop - before the loop statement, or after the brace that closes the loop
\* (Python: not nested in the loop statement) - yields no loop-dependent
\* finding.  JavaScanner._find_loops breaks this for the lines after the
\* loop's closing brace.
C10_OutsideLoopNoFinding ==
    /\ Scanned("python") =>
          \A k \in 1..Len(code.tree) :
              (/\ PySourceHasLoop
               /\ ~PyEnclosedByLoop(k)
               /\ PyPlainDbRead(code.tree[k]) \/ PyPlainSerialization(code.tree[k]))
                  => \A j \in ReportedAt(k) :
                         Reported[j].rule_id \notin LoopDependentRules
    /\ Scanned("javascript") =>
          \A s, e \in 1..Len(code.lines) :
              LexOneLoop(JS_LOOP_PATTERNS, s, e)
                  => LexNoneOutside(s, e, JsPlainDbRead, JsPlainSerialization)
    /\ Scanned("java") =>
          \A s, e \in 1..Len(code.lines) :
              LexOneLoop(JAVA_LOOP_PATTERNS, s, e)
                  => LexNoneOutside(s, e, JavaPlainDbRead, JavaPlainSerialization)

-----------------------------------------------------------------------------
(* C11 *)

\* C11: scan_code returns a ScanResult whatever the scanner does.  When the
\* scanner raises, the result has the resolved language, the exception's
\* message as error and no findings; and in every result an error comes with
\* an empty findings list.
C11_FaultContained ==
    /\ pc = "done" => result # Nothing
    /\ (pc = "done" /\ language = Some("python") /\ code.fault # Nothing) =>
          result = Some(ScanResult(file_path, "python", <<>>,
                                   Some(code.fault[1].message)))
    /\ (result # Nothing /\ result[1].error # Nothing) => result[1].findings = <<>>

\* the visitor has raised after it had collected a finding, and scan_code
\* has returned the error without findings
C11_Witness ==
    /\ pc = "done"
    /\ code.fault # Nothing
    /\ code.fault[1].at > 0
    /\ findings # <<>>
    /\ result # Nothing
    /\ result[1].error = Some("maximum recursion depth exceeded")
    /\ result[1].findings = <<>>

-----------------------------------------------------------------------------
(* C12 *)

\* C12: on a Python source that does not parse, PythonScanner.scan returns
\* the empty list and scan_code returns a ScanResult with language python,
\* no findings and no error.
C12_SyntaxErrorSilent ==
    (language = Some("python") /\ ~code.parse_ok /\ code.fault = Nothing) =>
        /\ pc \in {"start", "py_parse", "return", "done"}
        /\ findings = <<>> /\ out_findings = <<>>
        /\ pc = "done" => result = Some(ScanResult(file_path, "python", <<>>, Nothing))

\* scan_code has returned for an unparseable, non-empty source that was
\* detected as Python from its content
C12_Witness ==
    /\ pc = "done"
    /\ language = Some("python")
    /\ ~code.parse_ok
    /\ ~code.text_empty
    /\ content_scored
    /\ result # Nothing
    /\ result[1].error = Nothing
    /\ result[1].findings = <<>>

-----------------------------------------------------------------------------
(* C13 *)

\* a unit of the batch: a regular file that is not excluded and has a
\* supported extension
Eligible(e) == e.is_file /\ ~Excluded(e.path) /\ ExtensionMapped(e.path)

\* the unit cannot be read, or its scan fails
UnitFails(e) == e.vanished \/ e.read_error # Nothing \/ e.content.fault # Nothing

\* the units among the entries the loop has dealt with, in traversal order
UnitsDone ==
    IF directory = Nothing THEN <<>>
    ELSE SelectSeq(SubSeq(directory.files, 1, dir_idx - 1), Eligible)

\* C13: scan_directory returns exactly one ScanResult per unit, in traversal
\* order; a unit that cannot be read or whose scan fails contributes a
\* result with an error; and the batch is never cut short: throughout, the
\* results are those of the units among the entries dealt with so far, the
\* loop is at an entry or at its end, and when scan_directory returns every
\* entry of an existing directory has been dealt with.
C13_DirectoryIsolation ==
    /\ Len(results) = Len(UnitsDone)
    /\ \A i \in 1..Len(results) :
          /\ results[i].file_path = UnitsDone[i].path
          /\ UnitFails(UnitsDone[i]) => results[i].error # Nothing
    /\ dir_idx \in 1..(Len(directory.files) + 1)
    /\ pc \notin {"dir_start", "dir_loop", "dir_done"} =>
          /\ dir_idx <= Len(directory.files)
          /\ Eligible(directory.files[dir_idx])
          /\ file_path = directory.files[dir_idx].path
    /\ (pc = "dir_done" /\ directory.exists) => dir_idx = Len(directory.files) + 1

\* the scan of the first file raised, the second file was scanned and has a
\* finding, and the batch has returned both results
C13_Witness ==
    /\ pc = "dir_done"
    /\ Len(directory.files) = 2
    /\ Len(results) = 2
    /\ directory.files[1].content.fault # Nothing
    /\ results[1].error # Nothing
    /\ results[2].error = Nothing
    /\ results[2].findings # <<>>

-----------------------------------------------------------------------------
(* C14: severity buckets of the cost estimator *)

\* the bucket the thresholds 10 and 100 rupees per month give
Bucket(monthly_cost) ==
    IF monthly_cost > 100 * Scale THEN "high"
    ELSE IF monthly_cost > 10 * Scale THEN "medium"
    ELSE "low"

\* C14: the severity _calculate_severity returns, and the severity of every
\* estimate, is 'high' iff monthly_cost > 100, 'medium' iff
\* 10 < monthly_cost <= 100 and 'low' iff monthly_cost <= 10; with default
\* iterations api_call costs 30 per month and is 'medium', database_read
\* costs 6 per month and is 'low'.
C14_SeverityBuckets ==
    cost_ret # Nothing =>
        LET r == cost_ret[1]
        IN  /\ r.op = "_calculate_severity" =>
                  /\ r.ret = "high" <=> r.monthly_cost > 100 * Scale
                  /\ r.ret = "medium" <=>
                        (10 * Scale < r.monthly_cost /\ r.monthly_cost <= 100 * Scale)
                  /\ r.ret = "low" <=> r.monthly_cost <= 10 * Scale
            /\ r.op = "estimate" =>
                  /\ r.ret.severity = Bucket(r.ret.monthly_cost)
                  /\ (r.iterations = Nothing /\ r.category = "api_call") =>
                        (r.ret.monthly_cost = 30 * Scale /\ r.ret.severity = "medium")
                  /\ (r.iterations = Nothing /\ r.category = "database_read") =>
                        (r.ret.monthly_cost = 6 * Scale /\ r.ret.severity = "low")

\* _calculate_severity was asked about exactly 100 rupees and said 'medium'
C14_Witness ==
    /\ cost_ret # Nothing
    /\ cost_ret[1].op = "_calculate_severity"
    /\ cost_ret[1].monthly_cost = 100 * Scale
    /\ cost_ret[1].ret = "medium"

-----------------------------------------------------------------------------
(* C15: the iteration count of an estimate *)

\* the iteration count the caller asked for: its own, or 100 if it gave none
IterationsAskedFor(iterations) ==
    IF iterations = Nothing THEN 100 ELSE iterations[1]

\* C15: estimate(category, n) uses iterations = n for every n >= 0 the caller
\* supplies, and 100 only when the caller supplies none:
\* per_execution_cost = unit_cost[category] x iterations and
\* monthly_cost = per_execution_cost x 30; quick_estimate reports the same
\* iteration count.
C15_IterationsAsSupplied ==
    cost_ret # Nothing =>
        LET r == cost_ret[1]
        IN  /\ r.op = "estimate" =>
                  /\ r.ret.iterations = IterationsAskedFor(r.iterations)
                  /\ r.ret.per_execution_cost =
                        UNIT_COSTS[r.category] * IterationsAskedFor(r.iterations)
                  /\ r.ret.monthly_cost = r.ret.per_execution_cost * 30
            /\ r.op = "quick_estimate" =>
                  r.ret.iterations = IterationsAskedFor(r.iterations)

-----------------------------------------------------------------------------
(* C16: the summary of a sequence of estimates *)

\* the sum of f over a sequence of records, for f one of the two cost fields
RECURSIVE TotalOf(_, _)
TotalOf(es, field) ==
    IF es = <<>> THEN 0
    ELSE (IF field = "monthly_cost" THEN Head(es).monthly_cost
          ELSE Head(es).per_execution_cost) + TotalOf(Tail(es), field)

HowMany(es, severity) ==
    Cardinality({i \in 1..Len(es) : es[i].severity = severity})

\* C16: get_summary returns the rounded sums of per_execution_cost and of
\* monthly_cost, findings_count = the number of estimates, and
\* severity_counts that count every estimate in exactly one of low, medium,
\* high, so that the three add up to findings_count; for no estimates all
\* totals and counts are 0; the disclaimer is in every summary.
C16_Summary ==
    (cost_ret # Nothing /\ cost_ret[1].op = "get_summary") =>
        LET r == cost_ret[1].ret
        IN  /\ r.total_per_execution = Round2(TotalOf(estimates, "per_execution_cost"))
            /\ r.total_monthly = Round2(TotalOf(estimates, "monthly_cost"))
            /\ r.findings_count = Len(estimates)
            /\ DOMAIN r.severity_counts = {"low", "medium", "high"}
            /\ \A s \in {"low", "medium", "high"} :
                  r.severity_counts[s] = HowMany(estimates, s)
            /\ r.severity_counts["low"] + r.severity_counts["medium"]
                  + r.severity_counts["high"] = r.findings_count
            /\ estimates = <<>> =>
                  /\ r.total_per_execution = 0
                  /\ r.total_monthly = 0
                  /\ \A s \in {"low", "medium", "high"} : r.severity_counts[s] = 0
                  /\ r.findings_count = 0
            /\ r.disclaimer = "Approximate estimate for awareness, not exact billing."

\* a summary of two estimates of different severity whose per-execution
\* total was rounded
C16_Witness ==
    /\ cost_ret # Nothing
    /\ cost_ret[1].op = "get_summary"
    /\ Len(estimates) = 2
    /\ cost_ret[1].ret.severity_counts["low"] = 1
    /\ cost_ret[1].ret.severity_counts["high"] = 1
    /\ cost_ret[1].ret.total_per_execution # TotalOf(estimates, "per_execution_cost")

-----------------------------------------------------------------------------
(* C17: the language hint of scan_code *)

\* the supported language the hint names, "none" if it names none
HintLanguage ==
    IF /\ language_arg.type = "Language"
       /\ language_arg.value \in {"python", "javascript", "java"}
    THEN language_arg.value
    ELSE IF /\ language_arg.type = "str"
            /\ Lower(language_arg.value) \in {"python", "javascript", "java"}
    THEN Lower(language_arg.value)
    ELSE "none"

\* the steps of scan_code inside the scanner of a language and after it
ScannerSteps(lang) ==
    (CASE lang = "python" -> {"py_parse", "py_visit", "py_convert"}
       [] lang = "javascript" -> {"js_first_pass", "js_second_pass", "js_convert"}
       [] lang = "java" -> {"java_find_loops", "java_scan", "java_convert"}
       [] OTHER -> {})
    \cup {"return", "except", "done"}

\* C17: a hint that names a supported language, as a Language value or as
\* its name in any letter case, makes scan_code run that language's scanner
\* and report that language, whatever the path extension and the content,
\* which is then not scored; with an absent, 'unknown' or unrecognised hint
\* the language is the one the extension maps to and otherwise the one the
\* content detection gives.
C17_HintDecides ==
    language # Nothing =>
        IF HintLanguage # "none"
        THEN /\ language[1] = HintLanguage
             /\ ~content_scored
             /\ pc \in ScannerSteps(HintLanguage)
             /\ result # Nothing => result[1].language = HintLanguage
        ELSE LET ext == LanguageOfExtension(Lower(Suffix(file_path)))
             IN  /\ (file_path # "" /\ ext # "none") => language[1] = ext
                 /\ (file_path = "" \/ ext = "none") =>
                       language[1] = IF code.text_empty THEN "unknown"
                                     ELSE _detect_from_content(code)
                 /\ result # Nothing => result[1].language = language[1]

\* the hint "PYTHON" has run the Python scanner on a .java path whose
\* content scores for JavaScript only
C17_Witness ==
    /\ pc = "done"
    /\ language_arg = LangStr("PYTHON")
    /\ file_path = "src/App.java"
    /\ Score(js_indicators, code.words) > 0
    /\ Score(python_indicators, code.words) = 0
    /\ result # Nothing
    /\ result[1].language = "python"
    /\ result[1].error = Nothing

-----------------------------------------------------------------------------
(* C18: the Python call-site matcher *)

\* t occurs in s as a contiguous piece
Within(t, s) ==
    Len(t) <= Len(s) /\ \E i \in 1..(Len(s) - Len(t) + 1) : SubSeq(s, i, i + Len(t) - 1) = t

\* the rule <<receiver_pattern, method_pattern, ..>> accepts the signature
Accepts(receiver, method, rule) ==
    /\ Within(rule[2], method) \/ Within(method, rule[2])
    /\ rule[1] = "" \/ Within(rule[1], receiver) \/ Within(receiver, rule[1])

SomeRuleAccepts(table, node) ==
    \E r \in 1..Len(table) :
        Accepts(_extract_call_pattern(node)[1][1], _extract_call_pattern(node)[1][2],
                table[r])

RuleReportedAt(rule_id, line_number) ==
    \E f \in ReportedAt(line_number) : Reported[f].rule_id = rule_id

\* C18: a call inside a loop whose (receiver, method) signature can be
\* extracted is reported under a rule list exactly when some rule of the list
\* accepts the signature, a rule accepting it when its method pattern is in
\* the method or the method in the method pattern, and its receiver pattern
\* is empty, in the receiver, or the receiver in it; so a bare call, whose
\* receiver is empty, is reported whenever its name fits a method pattern.
C18_MatcherRule ==
    Scanned("python") =>
        \A k \in 1..Len(code.tree) :
            (/\ code.tree[k].kind = "Call"
             /\ PyEnclosedByLoop(k)
             /\ _extract_call_pattern(code.tree[k]) # Nothing) =>
                /\ RuleReportedAt("PY001", k) <=> SomeRuleAccepts(PY_DB_PATTERNS, code.tree[k])
                /\ RuleReportedAt("PY002", k) <=> SomeRuleAccepts(PY_API_PATTERNS, code.tree[k])
                /\ RuleReportedAt("PY003", k) <=>
                      SomeRuleAccepts(PY_SERIALIZATION_PATTERNS, code.tree[k])
                /\ (code.tree[k].ftype = "Name") =>
                      (RuleReportedAt("PY003", k) <=>
                         \E r \in 1..Len(PY_SERIALIZATION_PATTERNS) :
                            LET mp == PY_SERIALIZATION_PATTERNS[r][2]
                                m  == _extract_call_pattern(code.tree[k])[1][2]
                            IN  Within(mp, m) \/ Within(m, mp))

\* a bare call dumps(..) inside a loop has been reported as serialization
C18_Witness ==
    /\ Scanned("python")
    /\ \E k \in 1..Len(code.tree) :
          /\ code.tree[k].kind = "Call"
          /\ code.tree[k].ftype = "Name"
          /\ _extract_call_pattern(code.tree[k]) = Some(<<"", "dumps">>)
          /\ PyEnclosedByLoop(k)
          /\ RuleReportedAt("PY003", k)

-----------------------------------------------------------------------------
(* C19: findings per line and category *)

\* C19: the findings reported for a line hold at most one finding per
\* category: no two reported findings share line_number and category.
C19_OnePerLineAndCategory ==
    \A i, j \in 1..Len(Reported) :
        (/\ Reported[i].line_number = Reported[j].line_number
         /\ Reported[i].category = Reported[j].category) => i = j

-----------------------------------------------------------------------------
(* C20: first match wins within a rule list *)

\* the findings of a rule reported for a line
RuleFindingsAt(rule_id, line_number) ==
    {f \in ReportedAt(line_number) : Reported[f].rule_id = rule_id}

\* the first rule of a Python rule list that accepts the call node, 0 if none
FirstAccepting(table, node) ==
    LET hits == {r \in 1..Len(table) :
                    Accepts(_extract_call_pattern(node)[1][1],
                            _extract_call_pattern(node)[1][2], table[r])}
    IN  IF hits = {} THEN 0 ELSE CHOOSE r \in hits : \A q \in hits : r <= q

\* the first pattern of a JS / Java list found in the line, 0 if none
FirstFound(table, line) ==
    LET hits == {r \in 1..Len(table) : \E x \in 1..Len(line) : line[x] \in table[r][1]}
    IN  IF hits = {} THEN 0 ELSE CHOOSE r \in hits : \A q \in hits : r <= q

\* at most one finding of the rule for the line, and it names the rule `first`
OneFromFirst(rule_id, line_number, first, description) ==
    /\ Cardinality(RuleFindingsAt(rule_id, line_number)) <= 1
    /\ \A f \in RuleFindingsAt(rule_id, line_number) :
          first # 0 /\ Reported[f].desc = description

PyFirstMatchWins(table, rule_id) ==
    \A k \in 1..Len(code.tree) :
        (code.tree[k].kind = "Call" /\ _extract_call_pattern(code.tree[k]) # Nothing) =>
            LET first == FirstAccepting(table, code.tree[k])
            IN  OneFromFirst(rule_id, k, first, IF first = 0 THEN "" ELSE table[first][3])

LexFirstMatchWins(table, rule_id) ==
    \A i \in 1..Len(code.lines) :
        LET first == FirstFound(table, code.lines[i])
        IN  OneFromFirst(rule_id, i, first, IF first = 0 THEN "" ELSE table[first][2])

\* C20: within each rule list at most one finding is produced per call site
\* (Python: per call node; JS / Java: per line), and it is produced from
\* the first rule of the list, in table order, that matches.
C20_FirstMatchWins ==
    /\ Scanned("python") =>
          /\ PyFirstMatchWins(PY_DB_PATTERNS, "PY001")
          /\ PyFirstMatchWins(PY_API_PATTERNS, "PY002")
          /\ PyFirstMatchWins(PY_SERIALIZATION_PATTERNS, "PY003")
          /\ PyFirstMatchWins(UNBOUNDED_QUERY_PATTERNS, "PY004")
    /\ Scanned("javascript") =>
          /\ LexFirstMatchWins(JS_API_CALL_PATTERNS, "JS001")
          /\ LexFirstMatchWins(JS_DB_PATTERNS, "JS002")
          /\ LexFirstMatchWins(JS_PROMISE_PATTERNS, "JS003")
          /\ LexFirstMatchWins(JS_SERIALIZATION_PATTERNS, "JS004")
    /\ Scanned("java") =>
          /\ LexFirstMatchWins(SPRING_DATA_PATTERNS, "JAVA001")
          /\ LexFirstMatchWins(REST_TEMPLATE_PATTERNS, "JAVA002")
          /\ LexFirstMatchWins(OBJECT_MAPPER_PATTERNS, "JAVA003")
          /\ LexFirstMatchWins(JDBC_PATTERNS, "JAVA004")
          /\ LexFirstMatchWins(AWS_PATTERNS, "JAVA005")

-----------------------------------------------------------------------------
(* C21: the signature of a Python call *)

\* the call shapes the claim names: obj.m(..), a.obj.m(..), inner(..).m(..)
\* with inner an attribute or a bare name, and f(..)
NamedCallShape(node) ==
    /\ node.kind = "Call"
    /\ \/ node.ftype = "Name"
       \/ node.ftype = "Attribute" /\ node.vtype \in {"Name", "Attribute"}
       \/ node.ftype = "Attribute" /\ node.vtype = "Call"
          /\ node.vftype \in {"Attribute", "Name"}

\* the signature the claim gives such a call
NamedSignature(node) ==
    IF node.ftype = "Name" THEN <<"", Lower(node.attr)>>
    ELSE <<Lower(node.recv), Lower(node.attr)>>

\* C21: every attribute-style call, every call chained off another call
\* (the inner callee an attribute or a bare name) and every bare call has a
\* signature: the lower-cased receiver name (empty for a bare call) and
\* the lower-cased method; the signature is matched against the rule
\* tables, so inside a loop the call is reported as PY001 exactly when a
\* database rule accepts it.
C21_SignatureOfEveryShape ==
    Scanned("python") =>
        \A k \in 1..Len(code.tree) :
            NamedCallShape(code.tree[k]) =>
                /\ _extract_call_pattern(code.tree[k]) = Some(NamedSignature(code.tree[k]))
                /\ PyEnclosedByLoop(k) =>
                      (RuleReportedAt("PY001", k) <=>
                         \E r \in 1..Len(PY_DB_PATTERNS) :
                            Accepts(NamedSignature(code.tree[k])[1],
                                    NamedSignature(code.tree[k])[2], PY_DB_PATTERNS[r]))

-----------------------------------------------------------------------------
(* C22: the loop stack of the Python visitor *)

\* the constructs the claim counts as loops
ClaimedLoopConstructs ==
    {"For", "AsyncFor", "While", "ListComp", "SetComp", "DictComp", "GeneratorExp"}

EnclosingLoops(k) ==
    Cardinality({j \in PyAncestors(k) : code.tree[j].kind \in ClaimedLoopConstructs})

\* C22: when the visitor has just visited a call node the loop stack holds
\* one entry per enclosing for (plain or async), while, comprehension or
\* generator expression; the call is reported under a loop rule only if
\* that number is > 0; and the stack is empty when the traversal ends.
C22_LoopStackDepth ==
    /\ (/\ pc = "py_visit"
        /\ node_idx > 1
        /\ code.tree[node_idx - 1].kind = "Call") =>
            /\ Len(loop_stack) = EnclosingLoops(node_idx - 1)
            /\ \A f \in 1..Len(findings) :
                  (findings[f].line_number = node_idx - 1
                   /\ findings[f].rule_id \in {"PY001", "PY002", "PY003"}) =>
                      Len(loop_stack) > 0
    /\ pc = "py_convert" => loop_stack = <<>>

-----------------------------------------------------------------------------
(* C23: loop scopes of JavaScanner._find_loops *)

\* the line matches a loop-start pattern of the list
StartsLoop(loop_patterns, line) ==
    \E r \in 1..Len(loop_patterns) : \E x \in 1..Len(line) : line[x] \in loop_patterns[r]

\* the brace depth after the first j characters of the line
BraceDepthAfter(line, braces, j) ==
    braces + Cardinality({x \in 1..j : line[x] = "{"})
           - Cardinality({x \in 1..j : line[x] = "}"})

\* the brace depths the closing braces of the line bring about
DepthsAtClose(line, braces) ==
    {BraceDepthAfter(line, braces, j) : j \in {x \in 1..Len(line) : line[x] = "}"}}

\* the floors no closing brace of the line goes below
FloorsKept(floors, line, braces) ==
    SelectSeq(floors, LAMBDA f : \A d \in DepthsAtClose(line, braces) : d >= f)

\* C23: in every step of _find_loops on a line, a loop-start line adds one
\* loop whose floor is the brace depth before the line; the loops popped
\* are exactly those whose floor a closing brace of the line goes below;
\* and the line is marked in-loop iff the loop depth is > 0 afterwards.
C23_JavaLoopScope ==
    [][(pc = "java_find_loops" /\ line_idx < Len(code.lines)) =>
          LET line    == code.lines[line_idx + 1]
              entered == IF StartsLoop(JAVA_LOOP_PATTERNS, line)
                         THEN Append(loop_start_depths, brace_depth)
                         ELSE loop_start_depths
          IN  /\ loop_start_depths' = FloorsKept(entered, line, brace_depth)
              /\ loop_depth' = loop_depth + Len(loop_start_depths') - Len(loop_start_depths)
              /\ brace_depth' = BraceDepthAfter(line, brace_depth, Len(line))
              /\ (line_idx \in in_loop_lines') <=> loop_depth' > 0
              /\ in_loop_lines' \ {line_idx} = in_loop_lines
    ]_vars

\* a loop opened inside a method body has been popped by the brace that
\* closes the method, not by the brace that closes the loop body
C23_Witness ==
    /\ pc = "java_find_loops"
    /\ line_idx = 4
    /\ StartsLoop(JAVA_LOOP_PATTERNS, code.lines[2])
    /\ ~StartsLoop(JAVA_LOOP_PATTERNS, code.lines[1])
    /\ code.lines[3] = <<"}">>
    /\ code.lines[4] = <<"}">>
    /\ in_loop_lines = {1, 2}
    /\ loop_depth = 0
    /\ loop_start_depths = <<>>
    /\ brace_depth = 0

-----------------------------------------------------------------------------
(* C24: loop scopes of the JavaScript first pass *)

\* the brace depth before line i of the source
RECURSIVE DepthBeforeLine(_, _)
DepthBeforeLine(lines, i) ==
    IF i <= 1 THEN 0
    ELSE BraceDepthAfter(lines[i - 1], DepthBeforeLine(lines, i - 1), Len(lines[i - 1]))

\* the loop opened on line s is still open when line i begins: the loop
\* line leaves a brace open, and no closing brace of the lines between has
\* brought the depth down to the depth before the loop line
OpenFromTo(lines, s, i) ==
    /\ s <= i
    /\ i <= Len(lines)
    /\ StartsLoop(JS_LOOP_PATTERNS, lines[s])
    /\ DepthBeforeLine(lines, s + 1) > DepthBeforeLine(lines, s)
    /\ \A c \in (s + 1)..(i - 1) :
          \A d \in DepthsAtClose(lines[c], DepthBeforeLine(lines, c)) :
              d > DepthBeforeLine(lines, s)

\* C24: after the loop-scope pass every line from a loop-start line to the
\* brace that closes the loop body is marked in-loop; a closing brace of a
\* block or object literal nested in the body does not end the loop.
C24_JsLoopStaysOpen ==
    (pc = "js_second_pass" /\ language = Some("javascript")) =>
        \A s \in 1..Len(code.lines) : \A i \in s..Len(code.lines) :
            OpenFromTo(code.lines, s, i) => (i - 1) \in in_loop_lines

-----------------------------------------------------------------------------
(* C25: the winner of the content detection *)

\* C25: when the content is scored, the language is the one with the
\* highest score, on a tie the first of Python, JavaScript, Java, and
\* Unknown exactly when every score is zero.
C25_ContentWinner ==
    (language # Nothing /\ content_scored) =>
        LET p == Score(python_indicators, code.words)
            j == Score(js_indicators, code.words)
            v == Score(java_indicators, code.words)
        IN  /\ language[1] = "unknown" <=> (p = 0 /\ j = 0 /\ v = 0)
            /\ language[1] = "python" <=> (p > 0 /\ p >= j /\ p >= v)
            /\ language[1] = "javascript" <=> (j > p /\ j >= v)
            /\ language[1] = "java" <=> (v > p /\ v > j)

\* a content whose only indicator is the shared keyword 'import ' has been
\* detected as Python
C25_Witness ==
    /\ language = Some("python")
    /\ content_scored
    /\ Score(python_indicators, code.words) = 1
    /\ Score(js_indicators, code.words) = 1
    /\ Score(java_indicators, code.words) = 0
    /\ \A w \in DOMAIN code.words : Lower(w) = "import "

-----------------------------------------------------------------------------
(* C26: the score of the content detection *)

\* the occurrences of the indicators in the content: one element for each
\* indicator and each occurrence of a piece of text that holds it
Occurrences(indicators, words) ==
    UNION {{<<k, w, n>> : n \in 1..words[w]} :
              <<k, w>> \in {kw \in (1..Len(indicators)) \X DOMAIN words :
                                IsSubstring(indicators[kw[1]], Lower(kw[2]))}}

OccurrenceScore(indicators, words) == Cardinality(Occurrences(indicators, words))

\* C26: each language's score is the number of occurrences of its
\* indicators in the content, an indicator that occurs k times counting k:
\* the detected language is the winner under these scores.
C26_ScoreCountsOccurrences ==
    (language # Nothing /\ content_scored) =>
        LET p == OccurrenceScore(python_indicators, code.words)
            j == OccurrenceScore(js_indicators, code.words)
            v == OccurrenceScore(java_indicators, code.words)
        IN  language[1] = IF p = 0 /\ j = 0 /\ v = 0 THEN "unknown"
                          ELSE IF p >= j /\ p >= v THEN "python"
                          ELSE IF j >= v THEN "javascript"
                          ELSE "java"

-----------------------------------------------------------------------------
(* C27: the severity of a Python finding and its cost estimate *)

\* C27: every finding PythonScanner.scan returns has the severity the
\* detector gave it (the rule's severity, raised from medium to high on a
\* hot path); its cost estimate is never 'high' or 'critical', so the
\* step that copies such a cost severity changes no finding.
C27_SeverityIndependentOfCost ==
    Scanned("python") =>
        /\ Len(Reported) = Len(findings)
        /\ \A k \in 1..Len(Reported) :
              /\ Reported[k].severity = findings[k].severity
              /\ Reported[k].severity \in {RuleBaseSeverity(Reported[k].rule_id), "high"}
              /\ Reported[k].estimated_cost # Nothing
              /\ Reported[k].estimated_cost[1].severity \in {"low", "medium"}

\* a serialization finding outside a hot path is reported as medium while
\* its cost estimate says low
C27_Witness ==
    /\ Scanned("python")
    /\ \E k \in 1..Len(Reported) :
          /\ Reported[k].rule_id = "PY003"
          /\ Reported[k].severity = "medium"
          /\ Reported[k].estimated_cost[1].severity = "low"

-----------------------------------------------------------------------------
(* C28: calls in the header and the else clause of a Python loop *)

\* the node that holds node k
PyParent(k) ==
    CHOOSE j \in PyAncestors(k) : \A i \in PyAncestors(k) : i <= j

\* node k is the iterable or the else clause of the for statement j, the
\* test or the else clause of the while statement j, or the iterable of the
\* first generator of the comprehension j
InHeaderOf(k, j) ==
    /\ PyAncestors(k) # {}
    /\ \/ /\ PyParent(k) = j
          /\ code.tree[j].kind = "For"
          /\ code.tree[k].field \in {"iter", "orelse"}
       \/ /\ PyParent(k) = j
          /\ code.tree[j].kind = "While"
          /\ code.tree[k].field \in {"test", "orelse"}
       \/ /\ code.tree[PyParent(k)].kind = "comprehension"
          /\ code.tree[PyParent(k)].field = "generators"
          /\ code.tree[k].field = "iter"
          /\ PyAncestors(PyParent(k)) # {}
          /\ PyParent(PyParent(k)) = j
          /\ code.tree[j].kind \in PyComprehensionKinds
          /\ \A c \in (j + 1)..(PyParent(k) - 1) : code.tree[c].kind # "comprehension"

\* C28: a call in the iterable of a for statement, the test of a while
\* statement, the else clause of either, or the outermost iterable of a
\* comprehension is reported as a call in the body of that loop is: as a
\* database call, an API call, a serialization, exactly when a rule of
\* that list accepts its signature.
C28_HeaderCallsInLoop ==
    Scanned("python") =>
        \A k \in 1..Len(code.tree) :
            (/\ code.tree[k].kind = "Call"
             /\ _extract_call_pattern(code.tree[k]) # Nothing
             /\ \E j \in 1..(k - 1) : InHeaderOf(k, j)) =>
                /\ RuleReportedAt("PY001", k) <=> SomeRuleAccepts(PY_DB_PATTERNS, code.tree[k])
                /\ RuleReportedAt("PY002", k) <=> SomeRuleAccepts(PY_API_PATTERNS, code.tree[k])
                /\ RuleReportedAt("PY003", k) <=>
                      SomeRuleAccepts(PY_SERIALIZATION_PATTERNS, code.tree[k])

\* for row in cursor.fetchall(): has been reported as a database call in a
\* loop, with no other loop around it
C28_Witness ==
    /\ Scanned("python")
    /\ Len(code.tree) = 2
    /\ code.tree[1].kind = "For"
    /\ code.tree[2].kind = "Call"
    /\ code.tree[2].field = "iter"
    /\ _extract_call_pattern(code.tree[2]) = Some(<<"cursor", "fetchall">>)
    /\ InHeaderOf(2, 1)
    /\ RuleReportedAt("PY001", 2)

-----------------------------------------------------------------------------
(* C29: loop-start lines of the JavaScript first pass *)

NoClosingBrace(lines, s, i) ==
    \A c \in s..i : Count(lines[c], "}") = 0

\* C29: a line that matches a loop-start pattern is marked in-loop, and
\* when neither it nor the lines after it hold a closing brace the next
\* line is marked too; so a line with a .find( call is reported as a
\* database call in a loop whatever else the source holds, and a database
\* call on the line after a brace-less .map( line is reported.
C29_JsLoopStartLine ==
    Scanned("javascript") =>
        \A s \in 1..Len(code.lines) :
            StartsLoop(JS_LOOP_PATTERNS, code.lines[s]) =>
                /\ (s - 1) \in in_loop_lines
                /\ \A i \in (s + 1)..Len(code.lines) :
                       NoClosingBrace(code.lines, s, i - 1) => (i - 1) \in in_loop_lines
                /\ Count(code.lines[s], ".find(") > 0 => RuleReportedAt("JS002", s)
                /\ (/\ Count(code.lines[s], ".map(") > 0
                    /\ Count(code.lines[s], "}") = 0
                    /\ s < Len(code.lines)
                    /\ Count(code.lines[s + 1], ".findOne(") > 0) =>
                        RuleReportedAt("JS002", s + 1)

\* a .findOne( call on the line after a brace-less .map( line, the only
\* loop start of the source, has been reported
C29_Witness ==
    /\ Scanned("javascript")
    /\ \E s \in 1..(Len(code.lines) - 1) :
          /\ code.lines[s] = <<".map(">>
          /\ \A c \in 1..Len(code.lines) :
                c # s => ~StartsLoop(JS_LOOP_PATTERNS, code.lines[c])
          /\ Count(code.lines[s + 1], ".findOne(") > 0
          /\ s \in in_loop_lines
          /\ RuleReportedAt("JS002", s + 1)

-----------------------------------------------------------------------------
(* C30: the bookkeeping of JavaScanner._find_loops *)

\* loop_depth counts the recorded floors, the floors do not decrease from
\* the oldest to the newest, and none lies above the brace depth
JavaLoopStateOk(st) ==
    /\ st.loops = Len(st.floors)
    /\ st.loops >= 0
    /\ \A i \in 1..(Len(st.floors) - 1) : st.floors[i] <= st.floors[i + 1]
    /\ \A i \in 1..Len(st.floors) : st.floors[i] <= st.braces

\* the state when the characters of the next line are about to be read
JavaAtLineStart ==
    LET line   == code.lines[line_idx + 1]
        starts == StartsLoop(JAVA_LOOP_PATTERNS, line)
    IN  [floors |-> IF starts THEN Append(loop_start_depths, brace_depth)
                    ELSE loop_start_depths,
         braces |-> brace_depth,
         loops  |-> IF starts THEN loop_depth + 1 ELSE loop_depth]

\* C30: throughout _find_loops, whatever the lines and however unbalanced
\* their braces, loop_depth is the number of recorded floors and is not
\* negative, the floors do not decrease from oldest to newest, and after
\* every character read no floor lies above the brace depth.
C30_FindLoopsBookkeeping ==
    (pc = "java_find_loops") =>
        /\ JavaLoopStateOk([floors |-> loop_start_depths, braces |-> brace_depth,
                            loops |-> loop_depth])
        /\ line_idx < Len(code.lines) =>
              \A j \in 0..Len(code.lines[line_idx + 1]) :
                  JavaLoopStateOk(JavaChars(JavaAtLineStart,
                                            SubSeq(code.lines[line_idx + 1], 1, j)))

\* a loop has been opened after more closing than opening braces: its
\* floor and the brace depth are negative
C30_Witness ==
    /\ pc = "java_find_loops"
    /\ brace_depth < 0
    /\ loop_start_depths # <<>>
    /\ Last(loop_start_depths) < brace_depth
    /\ loop_depth = Len(loop_start_depths)

====
